---- MODULE Spec2Model ----
(***************************************************************************)
(* Model of the farm automation core of qq-farm-bot:                       *)
(*   src/unnamed/part_001  (farm.js: executor, analyzer, scheduler)        *)
(*   src/src/status.js     (game configuration and yield helpers)          *)
(* Asynchronous functions are cut at their await points: one action is the *)
(* synchronous run of a handler or of a continuation up to the next await.  *)
(***************************************************************************)
EXTENDS Integers, Sequences, FiniteSets, TLC

(***************************************************************************)
(* Bounds of the model                                                     *)
(***************************************************************************)
\* last Date.now() value the wall clock reaches (ms)
MaxNowMs == 1500
\* number of seconds the server clock advances past StartSec
MaxElapsedSec == 2
\* pending push-triggered setTimeout callbacks
MaxPushTimers == 2
\* farmCheckLoop instances alive at once (sleeping, in a cycle, or about to start)
MaxLoops == 2
\* plot ids are 1..NPlots
NPlots == 3
\* longest plot-id list handed directly to a per-plot operation
MaxIds == 3
\* longest phase list and longest plot list handed to the analyzer directly
MaxPhases == 2
MaxLands == 2

(***************************************************************************)
(* Program constants                                                       *)
(***************************************************************************)
PushDebounceMs == 500
PushDelayMs == 100
StartDelayMs == 2000
DragSleepMs == 50
DueSlackSec == 2
FertLowThreshold == 10
PerLine == 4

\* wall-clock values: Date.now() moves in steps of half the debounce window
StartNowMs == 2 * PushDebounceMs
TickMs == PushDebounceMs \div 2
\* server clock (seconds) at the start of the model
StartSec == 5 * DueSlackSec

Null == <<>>
Some(x) == <<x>>
IsNull(o) == Len(o) = 0
Val(o) == o[1]

Max(a, b) == IF a >= b THEN a ELSE b
Min(a, b) == IF a <= b THEN a ELSE b

RECURSIVE SeqToSet(_)
SeqToSet(s) == IF Len(s) = 0 THEN {} ELSE {Head(s)} \cup SeqToSet(Tail(s))

\* Array.prototype.slice(0, n)
SliceTo(s, n) == SubSeq(s, 1, Min(Max(n, 0), Len(s)))

(***************************************************************************)
(* Game configuration and time helpers                                     *)
(***************************************************************************)
PhaseMATURE == "MATURE"
PhaseDEAD == "DEAD"
PhaseSEED == "SEED"
PhaseGROW == "GROW"

\* utils.toTimeSec: a remote timestamp as server-clock seconds, 0 when unset
toTimeSec(v) == IF v > 0 THEN v ELSE 0

\* gameConfig plant table of the model: plant id -> total grow time (seconds);
\* plant 2 has no grow_phases entry
PlantIds == {1, 2}
getPlantGrowTime(plantId) == IF plantId = 1 THEN 2 * DueSlackSec + 2 ELSE 0

\* formatGrowTime: the displayed text, as unit and digits
formatGrowTime(seconds) ==
    IF seconds < 60 THEN <<"sec", seconds>>
    ELSE IF seconds < 3600 THEN <<"min", seconds \div 60>>
    ELSE IF ((seconds % 3600) \div 60) > 0
         THEN <<"hour-min", seconds \div 3600, (seconds % 3600) \div 60>>
         ELSE <<"hour", seconds \div 3600>>

(***************************************************************************)
(* Land State Analyzer                                                     *)
(***************************************************************************)
NoPlant == Null

\* a scan from the front: the first started phase up to index i
FirstStarted(phases, i, nowSec) ==
    LET started == {j \in 1..i : toTimeSec(phases[j].begin_time) > 0
                                    /\ toTimeSec(phases[j].begin_time) <= nowSec}
    IN IF started = {} THEN 0 ELSE CHOOSE j \in started : \A k \in started : j <= k

RECURSIVE LatestStarted(_, _, _)
\* the scan of getCurrentPhase: from index i down to 1
LatestStarted(phases, i, nowSec) ==
    IF i < 1 THEN 0
    ELSE IF toTimeSec(phases[i].begin_time) > 0 /\ toTimeSec(phases[i].begin_time) <= nowSec
         THEN i
         ELSE LatestStarted(phases, i - 1, nowSec)

\* index of the current phase (0: no phase at all)
getCurrentPhaseIdx(phases, nowSec) ==
    IF Len(phases) = 0 THEN 0
    ELSE IF LatestStarted(phases, Len(phases), nowSec) > 0
         THEN LatestStarted(phases, Len(phases), nowSec)
         ELSE 1

getCurrentPhase(phases, nowSec) ==
    IF getCurrentPhaseIdx(phases, nowSec) = 0 THEN Null
    ELSE Some(phases[getCurrentPhaseIdx(phases, nowSec)])

RECURSIVE EarliestBegin(_, _, _, _)
\* the loop of getRemainingToMatureInfo; onlyMature selects the matureBegin accumulator
EarliestBegin(phases, i, acc, onlyMature) ==
    IF i > Len(phases) THEN acc
    ELSE LET begin == toTimeSec(phases[i].begin_time)
             take == /\ begin > 0
                     /\ (acc = 0 \/ begin < acc)
                     /\ (onlyMature => phases[i].phase = PhaseMATURE)
         IN EarliestBegin(phases, i + 1, IF take THEN begin ELSE acc, onlyMature)

\* an estimate that uses the total grow time whenever it has one
getRemainingPreferringTotal(phases, nowSec, totalGrowTime) ==
    IF Len(phases) = 0 THEN [remainingSec |-> 0, known |-> FALSE]
    ELSE LET matureBegin == EarliestBegin(phases, 1, 0, TRUE)
             earliestBegin == EarliestBegin(phases, 1, 0, FALSE)
         IN IF totalGrowTime > 0 /\ earliestBegin > 0
            THEN [remainingSec |-> Max(0, totalGrowTime - Max(0, nowSec - earliestBegin)),
                  known |-> TRUE]
            ELSE IF matureBegin > 0
                 THEN [remainingSec |-> Max(0, matureBegin - nowSec), known |-> TRUE]
                 ELSE [remainingSec |-> 0, known |-> FALSE]

getRemainingToMatureInfo(phases, nowSec, totalGrowTime) ==
    IF Len(phases) = 0 THEN [remainingSec |-> 0, known |-> FALSE]
    ELSE LET matureBegin == EarliestBegin(phases, 1, 0, TRUE)
             earliestBegin == EarliestBegin(phases, 1, 0, FALSE)
         IN IF matureBegin > 0
            THEN [remainingSec |-> Max(0, matureBegin - nowSec), known |-> TRUE]
            ELSE IF totalGrowTime > 0 /\ earliestBegin > 0
                 THEN [remainingSec |-> Max(0, totalGrowTime - Max(0, nowSec - earliestBegin)),
                       known |-> TRUE]
                 ELSE [remainingSec |-> 0, known |-> FALSE]

RECURSIVE Chunks(_, _)
Chunks(s, n) == IF Len(s) = 0 THEN <<>>
                ELSE <<SliceTo(s, n)>> \o Chunks(SubSeq(s, Min(n, Len(s)) + 1, Len(s)), n)

buildFarmStatusLines(landSummaries) == Chunks(landSummaries, PerLine)

EmptyAnalysis(nowSec) ==
    [harvestable |-> <<>>, needWater |-> <<>>, needWeed |-> <<>>, needBug |-> <<>>,
     growing |-> <<>>, empty |-> <<>>, dead |-> <<>>,
     landSummaries |-> <<>>, landSnapshots |-> <<>>,
     minRemainingSec |-> Null, serverTimeSec |-> nowSec, unlockedCount |-> 0]

\* a test that trusts the threshold of the phase only
AfflictedByTimeOnly(count, thresholdSec, nowSec) ==
    thresholdSec > 0 /\ thresholdSec <= nowSec

\* the test of lines 529-544: a positive counter (dry_num, or the number of weed
\* or insect owners), or a threshold of the current phase that is set and reached
Afflicted(count, thresholdSec, nowSec) ==
    count > 0 \/ (thresholdSec > 0 /\ thresholdSec <= nowSec)

\* a minimum that takes the 0 of a plot of unknown remaining time as a time
LowerMinOfAll(minSec, remainInfo) ==
    IF IsNull(minSec) \/ remainInfo.remainingSec < Val(minSec)
    THEN Some(remainInfo.remainingSec) ELSE minSec

\* lines 557-562: a known remaining time lowers the minimum found so far
LowerMin(minSec, remainInfo) ==
    IF remainInfo.known /\ (IsNull(minSec) \/ remainInfo.remainingSec < Val(minSec))
    THEN Some(remainInfo.remainingSec) ELSE minSec

\* one iteration of the for-loop of analyzeLands
AnalyzeLand(r, land, nowSec) ==
    IF ~land.unlocked
    THEN [r EXCEPT !.landSummaries = Append(@, [id |-> land.id, text |-> <<"lock">>]),
                   !.landSnapshots = Append(@, [id |-> land.id, type |-> "lock"])]
    ELSE
    LET r1 == [r EXCEPT !.unlockedCount = @ + 1] IN
    IF IsNull(land.plant) \/ Len(Val(land.plant).phases) = 0
    THEN [r1 EXCEPT !.empty = Append(@, land.id),
                    !.landSummaries = Append(@, [id |-> land.id, text |-> <<"empty">>]),
                    !.landSnapshots = Append(@, [id |-> land.id, type |-> "empty"])]
    ELSE
    LET plant == Val(land.plant)
        currentPhase == Val(getCurrentPhase(plant.phases, nowSec))
        totalGrowTime == getPlantGrowTime(plant.id)
        totalGrowStr == IF totalGrowTime > 0 THEN formatGrowTime(totalGrowTime) ELSE <<"unknown">>
    IN
    IF currentPhase.phase = PhaseDEAD
    THEN [r1 EXCEPT !.dead = Append(@, land.id),
                    !.landSummaries = Append(@, [id |-> land.id, text |-> <<"dead">>]),
                    !.landSnapshots = Append(@, [id |-> land.id, type |-> "dead"])]
    ELSE IF currentPhase.phase = PhaseMATURE
    THEN [r1 EXCEPT !.harvestable = Append(@, land.id),
                    !.landSummaries = Append(@, [id |-> land.id,
                                                 text |-> <<formatGrowTime(0), totalGrowStr>>]),
                    !.landSnapshots = Append(@, [id |-> land.id, type |-> "mature",
                                                 totalGrowTime |-> totalGrowTime])]
    ELSE
    LET dryTime == toTimeSec(currentPhase.dry_time)
        weedsTime == toTimeSec(currentPhase.weeds_time)
        insectTime == toTimeSec(currentPhase.insect_time)
        water == Afflicted(plant.dry_num, dryTime, nowSec)
        hasWeeds == Afflicted(plant.weed_owners, weedsTime, nowSec)
        hasBugs == Afflicted(plant.insect_owners, insectTime, nowSec)
        remainInfo == getRemainingToMatureInfo(plant.phases, nowSec, totalGrowTime)
        remainingSec == remainInfo.remainingSec
    IN [r1 EXCEPT
          !.needWater = IF water THEN Append(@, land.id) ELSE @,
          !.needWeed = IF hasWeeds THEN Append(@, land.id) ELSE @,
          !.needBug = IF hasBugs THEN Append(@, land.id) ELSE @,
          !.growing = Append(@, land.id),
          !.minRemainingSec = LowerMin(@, remainInfo),
          !.landSummaries = Append(@, [id |-> land.id,
                                       text |-> <<formatGrowTime(remainingSec), totalGrowStr>>]),
          !.landSnapshots = Append(@, [id |-> land.id, type |-> "growing",
                                       totalGrowTime |-> totalGrowTime,
                                       remainingSec |-> remainingSec,
                                       remainingKnown |-> remainInfo.known])]

RECURSIVE AnalyzeFrom(_, _, _, _)
AnalyzeFrom(r, lands, i, nowSec) ==
    IF i > Len(lands) THEN r
    ELSE AnalyzeFrom(AnalyzeLand(r, lands[i], nowSec), lands, i + 1, nowSec)

\* an analyzer that counts a plot before looking at its lock
analyzeLandsCountingAll(lands, nowSec) ==
    [AnalyzeFrom(EmptyAnalysis(nowSec), lands, 1, nowSec) EXCEPT !.unlockedCount = Len(lands)]

analyzeLands(lands, nowSec) == AnalyzeFrom(EmptyAnalysis(nowSec), lands, 1, nowSec)

farmLinesOf(status) == buildFarmStatusLines(status.landSummaries)

buildFarmSnapshot(status) ==
    [emptyCount |-> Len(status.empty),
     deadCount |-> Len(status.dead),
     harvestableCount |-> Len(status.harvestable),
     needWaterCount |-> Len(status.needWater),
     needWeedCount |-> Len(status.needWeed),
     needBugCount |-> Len(status.needBug),
     minRemainingSec |-> status.minRemainingSec,
     serverTimeSec |-> status.serverTimeSec,
     landSnapshots |-> status.landSnapshots,
     unlockedCount |-> status.unlockedCount]

\* a projection that subtracts the elapsed time without a floor
SnapshotSummaryUnclamped(item, elapsed) ==
    IF item.type = "lock" THEN [id |-> item.id, text |-> <<"lock">>]
    ELSE IF item.type = "empty" THEN [id |-> item.id, text |-> <<"empty">>]
    ELSE IF item.type = "dead" THEN [id |-> item.id, text |-> <<"dead">>]
    ELSE LET totalGrowStr == IF item.totalGrowTime > 0
                             THEN formatGrowTime(item.totalGrowTime) ELSE <<"unknown">>
         IN IF item.type = "mature"
            THEN [id |-> item.id, text |-> <<formatGrowTime(0), totalGrowStr>>]
            ELSE [id |-> item.id,
                  text |-> <<formatGrowTime(IF item.remainingKnown
                                            THEN item.remainingSec - elapsed
                                            ELSE item.remainingSec),
                             totalGrowStr>>]

\* one entry of the projection regenerated from a cached land record
SnapshotSummary(item, elapsed) ==
    IF item.type = "lock" THEN [id |-> item.id, text |-> <<"lock">>]
    ELSE IF item.type = "empty" THEN [id |-> item.id, text |-> <<"empty">>]
    ELSE IF item.type = "dead" THEN [id |-> item.id, text |-> <<"dead">>]
    ELSE LET totalGrowStr == IF item.totalGrowTime > 0
                             THEN formatGrowTime(item.totalGrowTime) ELSE <<"unknown">>
         IN IF item.type = "mature"
            THEN [id |-> item.id, text |-> <<formatGrowTime(0), totalGrowStr>>]
            ELSE [id |-> item.id,
                  text |-> <<formatGrowTime(IF item.remainingKnown
                                            THEN Max(0, item.remainingSec - elapsed)
                                            ELSE item.remainingSec),
                             totalGrowStr>>]

\* buildFarmLinesFromSnapshot: Null when there is nothing to show
buildFarmLinesFromSnapshot(snapshot, nowSec) ==
    IF IsNull(snapshot) \/ Len(Val(snapshot).landSnapshots) = 0 THEN Null
    ELSE LET snap == Val(snapshot)
             elapsed == Max(0, nowSec - snap.serverTimeSec)
         IN Some(buildFarmStatusLines(
                   [i \in 1..Len(snap.landSnapshots) |->
                       SnapshotSummary(snap.landSnapshots[i], elapsed)]))

\* the extrapolated minimum remaining time of shouldCheckFarmNow
ExtrapolatedRemaining(snap, nowSec) ==
    Val(snap.minRemainingSec) - Max(0, nowSec - snap.serverTimeSec)

\* shouldCheckFarmNow with a strict comparison in its last test
shouldCheckFarmNowOfStrict(first, forced, snapshot, nowSec) ==
    \/ first
    \/ forced
    \/ IsNull(snapshot)
    \/ /\ ~IsNull(snapshot)
       /\ \/ Val(snapshot).emptyCount > 0
          \/ Val(snapshot).deadCount > 0
          \/ Val(snapshot).harvestableCount > 0
          \/ Val(snapshot).needWaterCount > 0
          \/ Val(snapshot).needWeedCount > 0
          \/ Val(snapshot).needBugCount > 0
          \/ /\ ~IsNull(Val(snapshot).minRemainingSec)
             /\ ExtrapolatedRemaining(Val(snapshot), nowSec) < DueSlackSec

shouldCheckFarmNowOf(first, forced, snapshot, nowSec) ==
    IF first THEN TRUE
    ELSE IF forced THEN TRUE
    ELSE IF IsNull(snapshot) THEN TRUE
    ELSE IF Val(snapshot).emptyCount > 0 THEN TRUE
    ELSE IF Val(snapshot).deadCount > 0 THEN TRUE
    ELSE IF Val(snapshot).harvestableCount > 0 THEN TRUE
    ELSE IF Val(snapshot).needWaterCount > 0 THEN TRUE
    ELSE IF Val(snapshot).needWeedCount > 0 THEN TRUE
    ELSE IF Val(snapshot).needBugCount > 0 THEN TRUE
    ELSE IF ~IsNull(Val(snapshot).minRemainingSec)
            /\ ExtrapolatedRemaining(Val(snapshot), nowSec) <= DueSlackSec
         THEN TRUE
    ELSE FALSE

(***************************************************************************)
(* Action Executor: per-plot sequences (fertilize, plantSeeds)             *)
(* A frame is the activation of one of the two functions, cut at its       *)
(* awaits: pc "call" (remote call for landIds[idx] in flight), "sleep"     *)
(* (the 50 ms delay), "ret" (returned successCount).  attempts logs the    *)
(* remote calls in issue order with their outcome.                         *)
(***************************************************************************)
PlotIds == 1..NPlots

NoFrame == [fn |-> "none", landIds |-> <<>>, idx |-> 0, successCount |-> 0,
            pc |-> "ret", attempts |-> <<>>]

\* entry of fertilize / plantSeeds up to the first await
SeqBegin(fn, landIds) ==
    [fn |-> fn, landIds |-> landIds, idx |-> IF Len(landIds) = 0 THEN 0 ELSE 1,
     successCount |-> 0,
     pc |-> IF Len(landIds) = 0 THEN "ret" ELSE "call",
     attempts |-> <<>>]

\* head of the next iteration of the for-loop: issue the next call or return
SeqNext(f) ==
    IF f.idx < Len(f.landIds)
    THEN [f EXCEPT !.idx = @ + 1, !.pc = "call"]
    ELSE [f EXCEPT !.pc = "ret"]

\* an iteration that goes on to the next call without the sleep
SeqAfterTryNoSleep(f) == SeqNext(f)

\* after the try/catch of one iteration: if (landIds.length > 1) await sleep(50)
SeqAfterTry(f) ==
    IF Len(f.landIds) > 1 THEN [f EXCEPT !.pc = "sleep"] ELSE SeqNext(f)

\* fertilize without the break: a failure is logged and the loop goes on
fertilizeSettleContinue(f, ok) ==
    LET g == [f EXCEPT !.attempts = Append(@, [id |-> f.landIds[f.idx], ok |-> ok])]
    IN IF ok THEN SeqAfterTry([g EXCEPT !.successCount = @ + 1])
       ELSE SeqAfterTry(g)

\* fertilize: the remote call settles (lines 155-160); a failure breaks the loop
fertilizeSettle(f, ok) ==
    LET g == [f EXCEPT !.attempts = Append(@, [id |-> f.landIds[f.idx], ok |-> ok])]
    IN IF ok THEN SeqAfterTry([g EXCEPT !.successCount = @ + 1])
       ELSE [g EXCEPT !.pc = "ret"]

\* plantSeeds with a break in its catch: the first failure ends the loop
plantSeedsSettleBreak(f, ok) ==
    LET g == [f EXCEPT !.attempts = Append(@, [id |-> f.landIds[f.idx], ok |-> ok])]
    IN IF ok THEN SeqAfterTry([g EXCEPT !.successCount = @ + 1])
       ELSE [g EXCEPT !.pc = "ret"]

\* plantSeeds: the remote call settles (lines 217-222); a failure is logged only
plantSeedsSettle(f, ok) ==
    LET g == [f EXCEPT !.attempts = Append(@, [id |-> f.landIds[f.idx], ok |-> ok])]
    IN IF ok THEN SeqAfterTry([g EXCEPT !.successCount = @ + 1])
       ELSE SeqAfterTry(g)

SeqSettle(f, ok) ==
    IF f.fn = "fertilize" THEN fertilizeSettle(f, ok) ELSE plantSeedsSettle(f, ok)

\* the 50 ms sleep is over
SeqWake(f) == SeqNext(f)

\* the remote call a frame has in flight
SeqCall(f) == [op |-> IF f.fn = "fertilize" THEN "Fertilize" ELSE "Plant",
               ids |-> <<f.landIds[f.idx]>>]

(***************************************************************************)
(* Yield Optimizer (gameConfig part of src/src/status.js)                  *)
(* Rates are exact fractions [n, d] with d > 0.                            *)
(***************************************************************************)
NoFertPlantSpeedPerSec == 9
NormalFertPlantSpeedPerSec == 6
\* FERT_PERCENT = 0.2 = 1 / FertPercentDen
FertPercentDen == 5
FertMinReduceSec == 30
SecPerHour == 3600

Frac(n, d) == [n |-> n, d |-> d]
RECURSIVE RatioGT(_, _, _, _)
\* an/ad > bn/bd for non-negative numerators and positive denominators, compared by
\* integer parts and then by the reciprocals of the remainders
RatioGT(an, ad, bn, bd) ==
    IF an \div ad # bn \div bd THEN an \div ad > bn \div bd
    ELSE IF an % ad = 0 THEN FALSE
    ELSE IF bn % bd = 0 THEN TRUE
    ELSE RatioGT(bd, bn % bd, ad, an % ad)
FracGT(a, b) == RatioGT(a.n, a.d, b.n, b.d)
FracEQ(a, b) == ~FracGT(a, b) /\ ~FracGT(b, a)

\* seed-shop-merged-export.json of the model
SeedShopRows ==
    << [seedId |-> 1, goodsId |-> 11, requiredLevel |-> 1, price |-> 1, unlocked |-> TRUE,
        exp |-> 10, growTimeSec |-> 600],
       [seedId |-> 2, goodsId |-> 12, requiredLevel |-> 5, price |-> 2, unlocked |-> TRUE,
        exp |-> 30, growTimeSec |-> 1200],
       [seedId |-> 3, goodsId |-> 13, requiredLevel |-> 0, price |-> 1, unlocked |-> FALSE,
        exp |-> 90, growTimeSec |-> 60],
       [seedId |-> 4, goodsId |-> 14, requiredLevel |-> 1, price |-> 1, unlocked |-> TRUE,
        exp |-> 50, growTimeSec |-> 0],
       [seedId |-> 6, goodsId |-> 16, requiredLevel |-> 1, price |-> 3, unlocked |-> TRUE,
        exp |-> 10, growTimeSec |-> 600],
       [seedId |-> 7, goodsId |-> 17, requiredLevel |-> 9, price |-> 4, unlocked |-> TRUE,
        exp |-> 10, growTimeSec |-> 60],
       [seedId |-> 8, goodsId |-> 18, requiredLevel |-> 9, price |-> 4, unlocked |-> TRUE,
        exp |-> 25, growTimeSec |-> 120],
       [seedId |-> 9, goodsId |-> 19, requiredLevel |-> 9, price |-> 4, unlocked |-> TRUE,
        exp |-> 1, growTimeSec |-> 20] >>

\* the fertilized grow time without its floor of one second, times FertPercentDen
calcEffectiveGrowTimeUnfloored(growSec) ==
    FertPercentDen * growSec - Max(growSec, FertPercentDen * FertMinReduceSec)

\* calcEffectiveGrowTime, times FertPercentDen
calcEffectiveGrowTime(growSec) ==
    Max(FertPercentDen,
        FertPercentDen * growSec - Max(growSec, FertPercentDen * FertMinReduceSec))

normalizeSeedRow(raw) ==
    [seedId |-> raw.seedId, goodsId |-> raw.goodsId,
     requiredLevel |-> IF raw.requiredLevel = 0 THEN 1 ELSE raw.requiredLevel,
     price |-> raw.price, unlocked |-> raw.unlocked,
     expHarvest |-> raw.exp, growTimeSec |-> raw.growTimeSec]

\* cycle times as fractions of a second
cycleSecNoFert(growSec, landCount) ==
    Frac(NoFertPlantSpeedPerSec * growSec + landCount, NoFertPlantSpeedPerSec)
cycleSecNormalFert(growSec, landCount) ==
    Frac(NormalFertPlantSpeedPerSec * calcEffectiveGrowTime(growSec)
           + FertPercentDen * landCount,
         NormalFertPlantSpeedPerSec * FertPercentDen)

\* (landCount * expPerCycle / cycleSec) * 3600
farmExpPerHour(landCount, expPerCycle, cycleSec) ==
    IF cycleSec.n > 0
    THEN Frac(landCount * expPerCycle * cycleSec.d * SecPerHour, cycleSec.n)
    ELSE Frac(0, 1)

YieldRow(raw, landCount) ==
    LET seed == normalizeSeedRow(raw)
    IN [seedId |-> seed.seedId, goodsId |-> seed.goodsId,
        requiredLevel |-> seed.requiredLevel, price |-> seed.price,
        unlocked |-> seed.unlocked, expHarvest |-> seed.expHarvest,
        growTimeSec |-> seed.growTimeSec,
        farmExpPerHourNoFert |->
            farmExpPerHour(landCount, seed.expHarvest,
                           cycleSecNoFert(seed.growTimeSec, landCount)),
        farmExpPerHourNormalFert |->
            farmExpPerHour(landCount, seed.expHarvest,
                           cycleSecNormalFert(seed.growTimeSec, landCount))]

RECURSIVE YieldRowsFrom(_, _)
YieldRowsFrom(i, landCount) ==
    IF i > Len(SeedShopRows) THEN <<>>
    ELSE LET seed == normalizeSeedRow(SeedShopRows[i])
         IN (IF seed.seedId = 0 \/ seed.growTimeSec <= 0 THEN <<>>
             ELSE <<YieldRow(SeedShopRows[i], landCount)>>)
            \o YieldRowsFrom(i + 1, landCount)

\* buildSeedYieldRows: the cache after the call (cache.rows is what it returns)
buildSeedYieldRows(cache, lands) ==
    LET landCount == Max(1, lands)
    IN IF cache.lands = landCount /\ Len(cache.rows) > 0
       THEN cache
       ELSE [lands |-> landCount, rows |-> YieldRowsFrom(1, landCount)]

RECURSIVE SelectRows(_, _, _, _)
\* rows.filter(requiredLevel <= lv && unlocked).filter(seedIdSet.has): seedIdSet Null = no filter
SelectRows(rows, i, lv, seedIdSet) ==
    IF i > Len(rows) THEN <<>>
    ELSE (IF /\ rows[i].requiredLevel <= lv
             /\ rows[i].unlocked
             /\ (IsNull(seedIdSet) \/ rows[i].seedId \in Val(seedIdSet))
          THEN <<rows[i]>> ELSE <<>>)
         \o SelectRows(rows, i + 1, lv, seedIdSet)

RECURSIVE PickFromLast(_, _, _, _)
\* a scan that lets a later row of equal rate replace the best one
PickFromLast(rows, i, best, key) ==
    IF i > Len(rows) THEN best
    ELSE PickFromLast(rows, i + 1,
                      IF FracGT(best[key], rows[i][key]) THEN best ELSE rows[i], key)

RECURSIVE PickFrom(_, _, _, _)
PickFrom(rows, i, best, key) ==
    IF i > Len(rows) THEN best
    ELSE PickFrom(rows, i + 1, IF FracGT(rows[i][key], best[key]) THEN rows[i] ELSE best, key)

\* pickBestSeed on a non-empty list
pickBestSeed(rows, key) == PickFrom(rows, 2, rows[1], key)

BestEntry(row, key) == [seedId |-> row.seedId, goodsId |-> row.goodsId,
                        price |-> row.price, expPerHour |-> row[key]]

\* getBestSeedsForLevel, given the yield cache it runs on: Null or Some(best pair)
getBestSeedsForLevel(cache, level, lands, seedIdSet) ==
    LET lv == Max(1, level)
        rows == buildSeedYieldRows(cache, Max(1, lands)).rows
        filtered == SelectRows(rows, 1, lv, seedIdSet)
    IN IF Len(filtered) = 0 THEN Null
       ELSE Some([bestNoFert |->
                      BestEntry(pickBestSeed(filtered, "farmExpPerHourNoFert"),
                                "farmExpPerHourNoFert"),
                  bestNormalFert |->
                      BestEntry(pickBestSeed(filtered, "farmExpPerHourNormalFert"),
                                "farmExpPerHourNormalFert")])

\* formatExpPerHour: the rate rounded to hundredths
formatExpPerHour(rate) ==
    100 * (rate.n \div rate.d) + (2 * 100 * (rate.n % rate.d) + rate.d) \div (2 * rate.d)

buildBestSeedLine(bestNoFert, bestNormalFert) ==
    <<bestNoFert.seedId, formatExpPerHour(bestNoFert.expPerHour),
      bestNormalFert.seedId, formatExpPerHour(bestNormalFert.expPerHour)>>

EmptyBestSeedCache == [level |-> 0, lands |-> 0, best |-> Null, line |-> <<>>]
EmptySeedYieldCache == [lands |-> 0, rows |-> <<>>]

\* a cache lookup keyed by the level alone
ensureBestSeedCacheByLevel(bsc, syc, lv, lands) ==
    IF lv = 0 \/ lands = 0 THEN [hit |-> FALSE, cache |-> bsc, yield |-> syc]
    ELSE IF bsc.level = lv /\ ~IsNull(bsc.best)
    THEN [hit |-> TRUE, cache |-> bsc, yield |-> syc]
    ELSE LET best == getBestSeedsForLevel(syc, lv, lands, Null)
             syc2 == buildSeedYieldRows(syc, Max(1, lands))
         IN IF IsNull(best) THEN [hit |-> FALSE, cache |-> bsc, yield |-> syc2]
            ELSE [hit |-> TRUE,
                  cache |-> [level |-> lv, lands |-> lands, best |-> best,
                             line |-> buildBestSeedLine(Val(best).bestNoFert,
                                                        Val(best).bestNormalFert)],
                  yield |-> syc2]

\* ensureBestSeedCache: [hit, cache, yield] = whether a cache is returned, the
\* Best-Seed Cache and the seed yield cache after the call
ensureBestSeedCache(bsc, syc, lv, lands) ==
    IF lv = 0 \/ lands = 0 THEN [hit |-> FALSE, cache |-> bsc, yield |-> syc]
    ELSE IF bsc.level = lv /\ bsc.lands = lands /\ ~IsNull(bsc.best)
    THEN [hit |-> TRUE, cache |-> bsc, yield |-> syc]
    ELSE LET best == getBestSeedsForLevel(syc, lv, lands, Null)
             syc2 == buildSeedYieldRows(syc, Max(1, lands))
         IN IF IsNull(best) THEN [hit |-> FALSE, cache |-> bsc, yield |-> syc2]
            ELSE [hit |-> TRUE,
                  cache |-> [level |-> lv, lands |-> lands, best |-> best,
                             line |-> buildBestSeedLine(Val(best).bestNoFert,
                                                        Val(best).bestNormalFert)],
                  yield |-> syc2]

(***************************************************************************)
(* Remote replies the model draws from                                     *)
(***************************************************************************)
Phase(ph, begin) == [phase |-> ph, begin_time |-> begin,
                     dry_time |-> 0, weeds_time |-> 0, insect_time |-> 0]
Plant(plantId, phases, dry, weeds, insects) ==
    [id |-> plantId, phases |-> phases, dry_num |-> dry,
     weed_owners |-> weeds, insect_owners |-> insects]
Land(id, unlocked, plant) == [id |-> id, unlocked |-> unlocked, plant |-> plant]

\* matures DueSlackSec + 1 seconds after the start of the model
GrowingPlant == Plant(1, <<Phase(PhaseSEED, StartSec - 1),
                           Phase(PhaseMATURE, StartSec + DueSlackSec + 1)>>, 0, 0, 0)
\* no begin time set, plant without configured grow time: remaining time unknown
UnknownPlant == Plant(2, <<Phase(PhaseSEED, 0)>>, 0, 0, 0)
MaturePlant == Plant(1, <<Phase(PhaseSEED, 1), Phase(PhaseMATURE, 2)>>, 0, 0, 0)
DeadPlant == Plant(1, <<Phase(PhaseSEED, 1), Phase(PhaseDEAD, 2)>>, 0, 0, 0)
ThirstyPlant == Plant(2, <<Phase(PhaseSEED, 0)>>, 1, 1, 0)
InfestedPlant == Plant(2, <<Phase(PhaseSEED, 0)>>, 1, 1, 1)

\* AllLands replies of the scheduler model: nothing to harvest, clear or plant
SchedFarms ==
    { <<>>,
      <<Land(1, TRUE, Some(GrowingPlant)), Land(2, FALSE, NoPlant)>>,
      <<Land(1, TRUE, Some(UnknownPlant)), Land(2, FALSE, NoPlant)>>,
      <<Land(1, FALSE, NoPlant), Land(2, TRUE, Some(ThirstyPlant))>> }

\* AllLands replies of the loop model: every category occurs
LoopFarms ==
    { <<>>,
      <<Land(1, TRUE, Some(GrowingPlant)), Land(2, FALSE, NoPlant)>>,
      <<Land(1, TRUE, Some(MaturePlant)), Land(2, TRUE, NoPlant)>>,
      <<Land(1, TRUE, Some(InfestedPlant)), Land(2, TRUE, Some(DeadPlant)),
        Land(3, FALSE, Some(DeadPlant))>>,
      <<Land(1, TRUE, Some(ThirstyPlant)), Land(2, TRUE, Some(MaturePlant))>> }

(***************************************************************************)
(* State                                                                   *)
(***************************************************************************)
VARIABLES
    \* module state of farm.js (lines 15-28, 835)
    isCheckingFarm, isFirstFarmCheck, farmCheckTimer, farmLoopRunning,
    lastFarmSnapshot, forceFarmCheck, lastUnlockedCount, lastPushTime,
    \* event loop: listeners registered on networkEvents, pending push timeouts,
    \* farmCheckLoop instances inside sleep(farmCheckInterval)
    listeners, pushTimers, loopSleeping,
    \* activation of checkFarm per caller, cut at its awaits
    loc,
    \* user state of the session (getUserState)
    gid, level, gold,
    \* Date.now() and getServerTimeSec()
    nowMs, serverSec,
    \* what updateStatus last received
    statusBar,
    \* the handler or continuation that ran last, its outcome and the remote
    \* calls it issued; Date.now() at the latest landsChanged notification
    \* received and at the latest one that scheduled a check (0: none)
    ev, pushSeen,
    \* caches: bestSeedCache (farm.js line 22), seedYieldCache (gameConfig)
    bestSeedCache, seedYieldCache,
    \* activation of a directly called per-plot operation
    frame

ctlVars == <<isCheckingFarm, isFirstFarmCheck, lastFarmSnapshot, forceFarmCheck,
             lastUnlockedCount>>
schedVars == <<farmCheckTimer, farmLoopRunning, lastPushTime, listeners, pushTimers,
               loopSleeping>>
userVars == <<gid, level, gold>>
clockVars == <<nowMs, serverSec>>
cacheVars == <<bestSeedCache, seedYieldCache>>
vars == <<ctlVars, schedVars, userVars, clockVars, cacheVars, loc, statusBar, ev,
          pushSeen, frame>>

\* callers of checkFarm: a farmCheckLoop instance, a push timeout, the exported function
Owners == {"loop", "push", "manual"}

\* locals of one checkFarm activation (and of autoPlantEmptyLands inside it)
IdleLoc == [pc |-> "idle", status |-> Null, pending |-> {}, harvested |-> <<>>,
            deadIds |-> <<>>, landsToPlant |-> <<>>, preferNoFert |-> FALSE,
            optLevel |-> 0, optLands |-> 0, bestSeed |-> Null, actualSeedId |-> 0,
            seq |-> NoFrame, plantedLands |-> <<>>, plantLog |-> <<>>]

InFlight == {o \in Owners : loc[o].pc # "idle"}

Event(op, by, outcome, calls) == [op |-> op, by |-> by, outcome |-> outcome, calls |-> calls]

Call(op, ids) == [op |-> op, ids |-> ids]

Result(l, calls) == [l |-> l, calls |-> calls]

(***************************************************************************)
(* Scheduling Controller                                                   *)
(***************************************************************************)
shouldCheckFarmNow ==
    shouldCheckFarmNowOf(isFirstFarmCheck, forceFarmCheck, lastFarmSnapshot, serverSec)

\* checkFarm without the re-entrancy guard
CheckFarmGuardNoLock == ~gid

\* checkFarm line 715: the re-entrancy guard and the login check
CheckFarmGuard == isCheckingFarm \/ ~gid

\* farmCheckLoop instances alive: sleeping, awaiting their cycle, or about to start
LiveLoops == loopSleeping + (IF loc["loop"].pc # "idle" THEN 1 ELSE 0)
                          + (IF farmCheckTimer = "pending" THEN 1 ELSE 0)

\* the skip path without its return: publishes the projection, then falls
\* through to the fetch
ProjectThenFetch(o) ==
    LET refreshedLines == buildFarmLinesFromSnapshot(lastFarmSnapshot, serverSec)
    IN /\ loc[o].pc = "idle"
       /\ statusBar' =
            IF IsNull(refreshedLines) THEN statusBar
            ELSE [farmLines |-> Val(refreshedLines),
                  bestSeedLine |-> IF bestSeedCache.line # <<>>
                                   THEN bestSeedCache.line
                                   ELSE statusBar.bestSeedLine]
       /\ isCheckingFarm' = TRUE
       /\ loc' = [loc EXCEPT ![o] = [IdleLoc EXCEPT !.pc = "fetch"]]
       /\ ev' = Event("checkFarm", o, "fetch", <<Call("AllLands", <<>>)>>)
       /\ UNCHANGED <<isFirstFarmCheck, lastFarmSnapshot, forceFarmCheck,
                      lastUnlockedCount>>

\* checkFarm lines 719-727: no refresh is due; republish the cached snapshot,
\* extrapolated to now, and return
ProjectOnly(o) ==
    LET refreshedLines == buildFarmLinesFromSnapshot(lastFarmSnapshot, serverSec)
    IN /\ statusBar' =
            IF IsNull(refreshedLines) THEN statusBar
            ELSE [farmLines |-> Val(refreshedLines),
                  bestSeedLine |-> IF bestSeedCache.line # <<>>
                                   THEN bestSeedCache.line
                                   ELSE statusBar.bestSeedLine]
       /\ ev' = Event("checkFarm", o, "projected", <<>>)
       /\ UNCHANGED <<ctlVars, loc>>

\* checkFarm lines 716 and 729: take the guard and fetch the plots
BeginFetch(o) ==
    /\ loc[o].pc = "idle"
    /\ isCheckingFarm' = TRUE
    /\ loc' = [loc EXCEPT ![o] = [IdleLoc EXCEPT !.pc = "fetch"]]
    /\ ev' = Event("checkFarm", o, "fetch", <<Call("AllLands", <<>>)>>)
    /\ UNCHANGED <<isFirstFarmCheck, lastFarmSnapshot, forceFarmCheck,
                   lastUnlockedCount, statusBar>>

\* checkFarm called by o, up to its first await (lines 713-729).  Leaves the
\* scheduler's own variables to the caller.
CheckFarm(o) ==
    IF CheckFarmGuard
    THEN /\ ev' = Event("checkFarm", o, "guarded", <<>>)
         /\ UNCHANGED <<ctlVars, loc, statusBar>>
    ELSE IF ~shouldCheckFarmNow
    THEN ProjectOnly(o)
    ELSE BeginFetch(o)

\* the exported checkFarm, called from outside the scheduler
ManualCheckFarm ==
    /\ CheckFarm("manual")
    /\ UNCHANGED <<schedVars, userVars, clockVars, cacheVars, frame, pushSeen>>

startFarmCheckLoop ==
    /\ LiveLoops < MaxLoops
    /\ IF farmLoopRunning
       THEN /\ ev' = Event("start", "cli", "running", <<>>)
            /\ UNCHANGED <<farmLoopRunning, listeners, farmCheckTimer>>
       ELSE /\ farmLoopRunning' = TRUE
            /\ listeners' = listeners + 1
            /\ farmCheckTimer' = "pending"
            /\ ev' = Event("start", "cli", "started", <<>>)
    /\ UNCHANGED <<ctlVars, lastPushTime, pushTimers, loopSleeping, userVars, clockVars,
                   cacheVars, loc, statusBar, frame, pushSeen>>

stopFarmCheckLoop ==
    /\ farmLoopRunning' = FALSE
    /\ farmCheckTimer' = "none"
    /\ listeners' = Max(0, listeners - 1)
    /\ ev' = Event("stop", "cli", "stopped", <<>>)
    /\ UNCHANGED <<ctlVars, lastPushTime, pushTimers, loopSleeping, userVars, clockVars,
                   cacheVars, loc, statusBar, frame, pushSeen>>

\* the 2000 ms start timeout fires: farmCheckLoop() runs to its first await
StartTimerFire ==
    /\ farmCheckTimer = "pending"
    /\ farmCheckTimer' = "fired"
    /\ IF farmLoopRunning
       THEN /\ CheckFarm("loop")
            /\ loopSleeping' = IF ev'.outcome = "fetch" THEN loopSleeping
                               ELSE loopSleeping + 1
       ELSE /\ ev' = Event("loop", "loop", "exit", <<>>)
            /\ UNCHANGED <<ctlVars, loc, statusBar, loopSleeping>>
    /\ UNCHANGED <<farmLoopRunning, lastPushTime, listeners, pushTimers, userVars,
                   clockVars, cacheVars, frame, pushSeen>>

\* a farmCheckLoop instance returns from sleep(CONFIG.farmCheckInterval)
LoopWake ==
    /\ loopSleeping > 0
    /\ IF farmLoopRunning
       THEN /\ CheckFarm("loop")
            /\ loopSleeping' = IF ev'.outcome = "fetch" THEN loopSleeping - 1
                               ELSE loopSleeping
       ELSE /\ loopSleeping' = loopSleeping - 1
            /\ ev' = Event("loop", "loop", "exit", <<>>)
            /\ UNCHANGED <<ctlVars, loc, statusBar>>
    /\ UNCHANGED <<farmCheckTimer, farmLoopRunning, lastPushTime, listeners, pushTimers,
                   userVars, clockVars, cacheVars, frame, pushSeen>>

\* a handler without the debounce test
PushDebouncedNever == FALSE

\* a handler without the in-cycle early return
PushIgnoredNever == FALSE

\* onLandsChangedPush line 839: the debounce test
PushDebounced == nowMs - lastPushTime < PushDebounceMs

\* onLandsChangedPush line 837: pushes that arrive during a cycle are ignored
PushIgnored == isCheckingFarm

\* a landsChanged notification is delivered to the registered listener
onLandsChangedPush ==
    /\ listeners > 0
    /\ pushSeen' = [recv |-> nowMs,
                    sched |-> IF PushIgnored \/ PushDebounced THEN pushSeen.sched
                              ELSE nowMs]
    /\ IF PushIgnored
       THEN /\ ev' = Event("landsChanged", "net", "ignored", <<>>)
            /\ UNCHANGED <<lastPushTime, forceFarmCheck, pushTimers>>
       ELSE IF PushDebounced
       THEN /\ ev' = Event("landsChanged", "net", "debounced", <<>>)
            /\ UNCHANGED <<lastPushTime, forceFarmCheck, pushTimers>>
       ELSE /\ pushTimers < MaxPushTimers
            /\ lastPushTime' = nowMs
            /\ forceFarmCheck' = TRUE
            /\ pushTimers' = pushTimers + 1
            /\ ev' = Event("landsChanged", "net", "accepted", <<>>)
    /\ UNCHANGED <<isCheckingFarm, isFirstFarmCheck, lastFarmSnapshot, lastUnlockedCount,
                   farmCheckTimer, farmLoopRunning, listeners, loopSleeping, userVars,
                   clockVars, cacheVars, loc, statusBar, frame>>

\* the 100 ms timeout of an accepted push fires (lines 845-849)
PushTimerFire ==
    /\ pushTimers > 0
    /\ pushTimers' = pushTimers - 1
    /\ IF ~isCheckingFarm
       THEN CheckFarm("push")
       ELSE /\ ev' = Event("pushTimer", "push", "busy", <<>>)
            /\ UNCHANGED <<ctlVars, loc, statusBar>>
    /\ UNCHANGED <<farmCheckTimer, farmLoopRunning, lastPushTime, listeners, loopSleeping,
                   userVars, clockVars, cacheVars, frame, pushSeen>>

(***************************************************************************)
(* Environment: session login and the two clocks                           *)
(***************************************************************************)
Levels == {1, 5}
Golds == {0, 1, 3}

Login(lv, money) ==
    /\ ~gid
    /\ gid' = TRUE
    /\ level' = lv
    /\ gold' = money
    /\ ev' = Event("login", "net", "ok", <<>>)
    /\ UNCHANGED <<ctlVars, schedVars, clockVars, cacheVars, loc, statusBar, frame, pushSeen>>

AdvanceMs ==
    /\ nowMs + TickMs <= MaxNowMs
    /\ nowMs' = nowMs + TickMs
    /\ ev' = Event("clock", "env", "ms", <<>>)
    /\ UNCHANGED <<ctlVars, schedVars, userVars, serverSec, cacheVars, loc, statusBar, frame, pushSeen>>

AdvanceSec ==
    /\ serverSec < StartSec + MaxElapsedSec
    /\ serverSec' = serverSec + 1
    /\ ev' = Event("clock", "env", "sec", <<>>)
    /\ UNCHANGED <<ctlVars, schedVars, userVars, nowMs, cacheVars, loc, statusBar, frame, pushSeen>>

(***************************************************************************)
(* checkFarm after the plot fetch, and the replant pipeline                *)
(* Each operator runs the code from one point to the next await and gives  *)
(* the locals there with the remote calls issued on the way; pc "done" is   *)
(* the end of checkFarm's try block.                                       *)
(***************************************************************************)
NormalFertilizerId == 1011

Finished(l) == Result([l EXCEPT !.pc = "done"], <<>>)

\* lines 378-396: plantSeeds has returned; fertilize the planted lands
EnterFertilize(l) ==
    LET planted == l.seq.successCount
        plantedLands == IF planted > 0 THEN SliceTo(l.landsToPlant, planted) ELSE <<>>
        l1 == [l EXCEPT !.plantedLands = plantedLands, !.plantLog = l.seq.attempts]
    IN IF Len(plantedLands) > 0
       THEN LET f == SeqBegin("fertilize", plantedLands)
            IN Result([l1 EXCEPT !.pc = "fert", !.seq = f], <<SeqCall(f)>>)
       ELSE Finished(l1)

\* lines 315-320: landsToPlant is known; query the bag for the fertilizer count
EnterSelect(l) ==
    IF Len(l.landsToPlant) = 0 THEN Finished(l)
    ELSE Result([l EXCEPT !.pc = "bag"], <<Call("Bag", <<>>)>>)

\* a replant that takes every harvestable land, harvested or not
EnterReplantAllHarvestable(l) ==
    LET allDeadLands == Val(l.status).dead \o Val(l.status).harvestable
        allEmptyLands == Val(l.status).empty
        l1 == [l EXCEPT !.deadIds = allDeadLands, !.landsToPlant = allEmptyLands]
    IN IF Len(allDeadLands) = 0 /\ Len(allEmptyLands) = 0 THEN Finished(l)
       ELSE IF Len(allDeadLands) > 0
            THEN Result([l1 EXCEPT !.pc = "clear"], <<Call("RemovePlant", allDeadLands)>>)
            ELSE EnterSelect(l1)

\* lines 787-795 and 298-306: collect dead and harvested lands, clear them
EnterReplant(l) ==
    LET allDeadLands == Val(l.status).dead \o l.harvested
        allEmptyLands == Val(l.status).empty
        l1 == [l EXCEPT !.deadIds = allDeadLands, !.landsToPlant = allEmptyLands]
    IN IF Len(allDeadLands) = 0 /\ Len(allEmptyLands) = 0 THEN Finished(l)
       ELSE IF Len(allDeadLands) > 0
            THEN Result([l1 EXCEPT !.pc = "clear"], <<Call("RemovePlant", allDeadLands)>>)
            ELSE EnterSelect(l1)

\* lines 777-785: harvest in one call
EnterHarvest(l) ==
    IF Len(Val(l.status).harvestable) > 0
    THEN Result([l EXCEPT !.pc = "harvest"], <<Call("Harvest", Val(l.status).harvestable)>>)
    ELSE EnterReplant(l)

\* lines 762-775: weed, bug and water calls are issued together and joined
BatchCalls(status) ==
    (IF Len(status.needWeed) > 0 THEN <<Call("WeedOut", status.needWeed)>> ELSE <<>>)
    \o (IF Len(status.needBug) > 0 THEN <<Call("Insecticide", status.needBug)>> ELSE <<>>)
    \o (IF Len(status.needWater) > 0 THEN <<Call("WaterLand", status.needWater)>> ELSE <<>>)

EnterBatch(l) ==
    LET batchOps == BatchCalls(Val(l.status))
    IN IF Len(batchOps) > 0
       THEN Result([l EXCEPT !.pc = "batch",
                             !.pending = {batchOps[i].op : i \in 1..Len(batchOps)}],
                   batchOps)
       ELSE EnterHarvest(l)

\* the continuation of o reaches its next await, or checkFarm returns (finally,
\* line 805) and the awaiting farmCheckLoop goes on to its sleep (lines 815-816)
\* checkFarm without its finally block: the guard is never released
ConcludeNoFinally(o, res) ==
    /\ loc' = [loc EXCEPT ![o] = IF res.l.pc = "done" THEN IdleLoc ELSE res.l]
    /\ isCheckingFarm' = isCheckingFarm
    /\ loopSleeping' = IF res.l.pc = "done" /\ o = "loop" /\ farmLoopRunning
                       THEN loopSleeping + 1 ELSE loopSleeping
    /\ UNCHANGED <<farmCheckTimer, farmLoopRunning, lastPushTime, listeners, pushTimers>>

\* farmCheckLoop leaving the loop when its cycle returns
ConcludeLoopEnds(o, res) ==
    /\ loc' = [loc EXCEPT ![o] = IF res.l.pc = "done" THEN IdleLoc ELSE res.l]
    /\ isCheckingFarm' = (IF res.l.pc = "done" THEN FALSE ELSE isCheckingFarm)
    /\ loopSleeping' = loopSleeping
    /\ UNCHANGED <<farmCheckTimer, farmLoopRunning, lastPushTime, listeners, pushTimers>>

Conclude(o, res) ==
    /\ loc' = [loc EXCEPT ![o] = IF res.l.pc = "done" THEN IdleLoc ELSE res.l]
    /\ isCheckingFarm' = (IF res.l.pc = "done" THEN FALSE ELSE isCheckingFarm)
    /\ loopSleeping' = IF res.l.pc = "done" /\ o = "loop" /\ farmLoopRunning
                       THEN loopSleeping + 1 ELSE loopSleeping
    /\ UNCHANGED <<farmCheckTimer, farmLoopRunning, lastPushTime, listeners, pushTimers>>

Outcome(res) == IF res.l.pc = "done" THEN "return" ELSE "await"

AllLandsReply(ok, lands) == [ok |-> ok, lands |-> lands]

\* how the reply to the plot fetch is classified
FetchOutcome(reply) ==
    IF ~reply.ok THEN "failed"
    ELSE IF Len(reply.lands) = 0 THEN "noLands"
    ELSE "analyzed"

\* an end without plots that clears the forced flag
EndWithoutLandsClearingForced(o, reply) ==
    /\ Conclude(o, Finished(loc[o]))
    /\ ev' = Event("AllLands", o, FetchOutcome(reply), <<>>)
    /\ forceFarmCheck' = FALSE
    /\ UNCHANGED <<isFirstFarmCheck, lastFarmSnapshot,
                   lastUnlockedCount, cacheVars, statusBar>>

\* checkFarm lines 730-733 and 802-806: nothing to work on, the cycle ends
EndWithoutLands(o, reply) ==
    /\ Conclude(o, Finished(loc[o]))
    /\ ev' = Event("AllLands", o, FetchOutcome(reply), <<>>)
    /\ UNCHANGED <<isFirstFarmCheck, lastFarmSnapshot, forceFarmCheck,
                   lastUnlockedCount, cacheVars, statusBar>>

\* a refresh that leaves the forced flag as it found it
RefreshKeepingForced(o, reply) ==
    LET status == analyzeLands(reply.lands, serverSec)
        unlocked == IF status.unlockedCount # 0 THEN status.unlockedCount
                    ELSE lastUnlockedCount
        bestCache == ensureBestSeedCache(bestSeedCache, seedYieldCache,
                                         level, unlocked)
        res == EnterBatch([loc[o] EXCEPT !.status = Some(status)])
    IN /\ lastFarmSnapshot' = Some(buildFarmSnapshot(status))
       /\ lastUnlockedCount' = unlocked
       /\ bestSeedCache' = bestCache.cache
       /\ seedYieldCache' = bestCache.yield
       /\ statusBar' = [farmLines |-> farmLinesOf(status),
                        bestSeedLine |->
                            IF bestCache.hit /\ bestCache.cache.line # <<>>
                            THEN bestCache.cache.line
                            ELSE statusBar.bestSeedLine]
       /\ isFirstFarmCheck' = FALSE
       /\ forceFarmCheck' = forceFarmCheck
       /\ Conclude(o, res)
       /\ ev' = Event("AllLands", o, FetchOutcome(reply), res.calls)

\* checkFarm lines 735-775: analyze, replace the snapshot, publish, clear the
\* flags, then on to the first remote mutation
Refresh(o, reply) ==
    LET status == analyzeLands(reply.lands, serverSec)
        unlocked == IF status.unlockedCount # 0 THEN status.unlockedCount
                    ELSE lastUnlockedCount
        bestCache == ensureBestSeedCache(bestSeedCache, seedYieldCache,
                                         level, unlocked)
        res == EnterBatch([loc[o] EXCEPT !.status = Some(status)])
    IN /\ lastFarmSnapshot' = Some(buildFarmSnapshot(status))
       /\ lastUnlockedCount' = unlocked
       /\ bestSeedCache' = bestCache.cache
       /\ seedYieldCache' = bestCache.yield
       /\ statusBar' = [farmLines |-> farmLinesOf(status),
                        bestSeedLine |->
                            IF bestCache.hit /\ bestCache.cache.line # <<>>
                            THEN bestCache.cache.line
                            ELSE statusBar.bestSeedLine]
       /\ isFirstFarmCheck' = FALSE
       /\ forceFarmCheck' = FALSE
       /\ Conclude(o, res)
       /\ ev' = Event("AllLands", o, FetchOutcome(reply), res.calls)

\* the plot fetch without the test for an empty reply
FetchReturnUnchecked(o, reply) ==
    /\ loc[o].pc = "fetch"
    /\ IF ~reply.ok THEN EndWithoutLands(o, reply) ELSE Refresh(o, reply)
    /\ UNCHANGED <<userVars, clockVars, frame, pushSeen>>

\* getAllLands settles (lines 729-745, then on to the first remote mutation)
FetchReturn(o, reply) ==
    /\ loc[o].pc = "fetch"
    /\ IF ~reply.ok \/ Len(reply.lands) = 0
       THEN EndWithoutLands(o, reply)
       ELSE Refresh(o, reply)
    /\ UNCHANGED <<userVars, clockVars, frame, pushSeen>>

\* a batch call without its catch: a failure ends the cycle
BatchReturnUncaught(o, op, ok) ==
    /\ loc[o].pc = "batch"
    /\ op \in loc[o].pending
    /\ LET l == [loc[o] EXCEPT !.pending = @ \ {op}]
           res == IF ~ok THEN Finished(l)
                  ELSE IF l.pending = {} THEN EnterHarvest(l) ELSE Result(l, <<>>)
       IN /\ Conclude(o, res)
          /\ ev' = Event(op, o, IF ok THEN "ok" ELSE "failed", res.calls)
    /\ UNCHANGED <<isFirstFarmCheck, lastFarmSnapshot, forceFarmCheck, lastUnlockedCount,
                   userVars, clockVars, cacheVars, statusBar, frame, pushSeen>>

\* a join that goes on to the harvest as soon as one batch call settles
BatchReturnEager(o, op, ok) ==
    /\ loc[o].pc = "batch"
    /\ op \in loc[o].pending
    /\ LET l == [loc[o] EXCEPT !.pending = @ \ {op}]
           res == EnterHarvest(l)
       IN /\ Conclude(o, res)
          /\ ev' = Event(op, o, IF ok THEN "ok" ELSE "failed", res.calls)
    /\ UNCHANGED <<isFirstFarmCheck, lastFarmSnapshot, forceFarmCheck, lastUnlockedCount,
                   userVars, clockVars, cacheVars, statusBar, frame, pushSeen>>

\* one of the joined batch calls settles; its failure is logged only
BatchReturn(o, op, ok) ==
    /\ loc[o].pc = "batch"
    /\ op \in loc[o].pending
    /\ LET l == [loc[o] EXCEPT !.pending = @ \ {op}]
           res == IF l.pending = {} THEN EnterHarvest(l) ELSE Result(l, <<>>)
       IN /\ Conclude(o, res)
          /\ ev' = Event(op, o, IF ok THEN "ok" ELSE "failed", res.calls)
    /\ UNCHANGED <<isFirstFarmCheck, lastFarmSnapshot, forceFarmCheck, lastUnlockedCount,
                   userVars, clockVars, cacheVars, statusBar, frame, pushSeen>>

\* a harvest whose ids are taken as harvested whether the call succeeded or not
HarvestReturnKeepingIds(o, ok) ==
    /\ loc[o].pc = "harvest"
    /\ LET l == [loc[o] EXCEPT !.harvested = Val(loc[o].status).harvestable]
           res == EnterReplant(l)
       IN /\ Conclude(o, res)
          /\ ev' = Event("Harvest", o, IF ok THEN "ok" ELSE "failed", res.calls)
    /\ UNCHANGED <<isFirstFarmCheck, lastFarmSnapshot, forceFarmCheck, lastUnlockedCount,
                   userVars, clockVars, cacheVars, statusBar, frame, pushSeen>>

\* harvest settles (lines 777-785): the harvested ids are kept on success only
HarvestReturn(o, ok) ==
    /\ loc[o].pc = "harvest"
    /\ LET l == [loc[o] EXCEPT !.harvested = IF ok THEN Val(loc[o].status).harvestable
                                             ELSE <<>>]
           res == EnterReplant(l)
       IN /\ Conclude(o, res)
          /\ ev' = Event("Harvest", o, IF ok THEN "ok" ELSE "failed", res.calls)
    /\ UNCHANGED <<isFirstFarmCheck, lastFarmSnapshot, forceFarmCheck, lastUnlockedCount,
                   userVars, clockVars, cacheVars, statusBar, frame, pushSeen>>

\* a clear whose failure ends the pipeline
ClearReturnStopping(o, ok) ==
    /\ loc[o].pc = "clear"
    /\ LET l == [loc[o] EXCEPT !.landsToPlant = @ \o loc[o].deadIds]
           res == IF ok THEN EnterSelect(l) ELSE Finished(loc[o])
       IN /\ Conclude(o, res)
          /\ ev' = Event("RemovePlant", o, IF ok THEN "ok" ELSE "failed", res.calls)
    /\ UNCHANGED <<isFirstFarmCheck, lastFarmSnapshot, forceFarmCheck, lastUnlockedCount,
                   userVars, clockVars, cacheVars, statusBar, frame, pushSeen>>

\* removePlant settles (lines 304-313): the lands are planted either way
ClearReturn(o, ok) ==
    /\ loc[o].pc = "clear"
    /\ LET l == [loc[o] EXCEPT !.landsToPlant = @ \o loc[o].deadIds]
           res == EnterSelect(l)
       IN /\ Conclude(o, res)
          /\ ev' = Event("RemovePlant", o, IF ok THEN "ok" ELSE "failed", res.calls)
    /\ UNCHANGED <<isFirstFarmCheck, lastFarmSnapshot, forceFarmCheck, lastUnlockedCount,
                   userVars, clockVars, cacheVars, statusBar, frame, pushSeen>>

BagReply(ok, items) == [ok |-> ok, items |-> items]
BagItem(id, count) == [id |-> id, count |-> count]

BagReplies ==
    { BagReply(FALSE, <<>>),
      BagReply(TRUE, <<>>),
      BagReply(TRUE, <<BagItem(1, 99), BagItem(NormalFertilizerId, FertLowThreshold - 1)>>),
      BagReply(TRUE, <<BagItem(NormalFertilizerId, FertLowThreshold)>>) }

RECURSIVE FertilizerIn(_, _)
FertilizerIn(items, i) ==
    IF i > Len(items) THEN Null
    ELSE IF items[i].id = NormalFertilizerId THEN Some(items[i].count)
    ELSE FertilizerIn(items, i + 1)

\* getFertilizerCount: Null when the bag call failed or holds no normal fertilizer
getFertilizerCount(reply) == IF reply.ok THEN FertilizerIn(reply.items, 1) ELSE Null

\* getBag settles (lines 320-332): choose the mode, refresh the cache, query the shop
BagReturn(o, reply) ==
    /\ loc[o].pc = "bag"
    /\ LET fertilizerCount == getFertilizerCount(reply)
           preferNoFert == ~IsNull(fertilizerCount) /\ Val(fertilizerCount) < FertLowThreshold
           landsForCalc == IF lastUnlockedCount # 0 THEN lastUnlockedCount
                           ELSE Len(loc[o].landsToPlant)
           cached == ensureBestSeedCache(bestSeedCache, seedYieldCache, level, landsForCalc)
           l == [loc[o] EXCEPT !.pc = "shop", !.preferNoFert = preferNoFert,
                               !.optLevel = level, !.optLands = landsForCalc]
           res == Result(l, <<Call("ShopInfo", <<>>)>>)
       IN /\ bestSeedCache' = cached.cache
          /\ seedYieldCache' = cached.yield
          /\ Conclude(o, res)
          /\ ev' = Event("Bag", o, IF reply.ok THEN "ok" ELSE "failed", res.calls)
    /\ UNCHANGED <<isFirstFarmCheck, lastFarmSnapshot, forceFarmCheck, lastUnlockedCount,
                   userVars, clockVars, statusBar, frame, pushSeen>>

ShopReply(ok, goods) == [ok |-> ok, goods_list |-> goods]
\* one goods entry; cond is the parameter of its level condition (type 1), 0 for none
Goods(id, itemId, price, unlocked, cond, limitCount, boughtNum) ==
    [id |-> id, item_id |-> itemId, price |-> price, unlocked |-> unlocked,
     cond |-> cond, limit_count |-> limitCount, bought_num |-> boughtNum]

ShopReplies ==
    { ShopReply(FALSE, <<>>),
      ShopReply(TRUE, <<>>),
      ShopReply(TRUE, <<Goods(13, 3, 1, FALSE, 0, 0, 0), Goods(11, 1, 1, TRUE, 0, 1, 1)>>),
      ShopReply(TRUE, <<Goods(12, 2, 2, TRUE, 5, 0, 0), Goods(11, 1, 1, TRUE, 1, 0, 0)>>),
      ShopReply(TRUE, <<Goods(15, 5, 2, TRUE, 0, 0, 0)>>) }

RECURSIVE AvailableFrom(_, _, _)
\* findBestSeed lines 256-285: the purchasable goods
AvailableFrom(goods, i, lv) ==
    IF i > Len(goods) THEN <<>>
    ELSE (IF /\ goods[i].unlocked
             /\ ~(goods[i].cond > 0 /\ lv < goods[i].cond)
             /\ ~(goods[i].limit_count > 0 /\ goods[i].bought_num >= goods[i].limit_count)
          THEN << [goodsId |-> goods[i].id, seedId |-> goods[i].item_id,
                   price |-> goods[i].price, requiredLevel |-> goods[i].cond] >>
          ELSE <<>>)
         \o AvailableFrom(goods, i + 1, lv)

RECURSIVE FindSeed(_, _, _)
\* available.find(item => item.seedId === seedId): index, 0 when absent
FindSeed(available, i, seedId) ==
    IF i > Len(available) THEN 0
    ELSE IF available[i].seedId = seedId THEN i
    ELSE FindSeed(available, i + 1, seedId)

RECURSIVE LowestLevel(_, _, _)
\* the head of available after the stable sort by requiredLevel
LowestLevel(available, i, best) ==
    IF i > Len(available) THEN best
    ELSE LowestLevel(available, i + 1,
                     IF available[i].requiredLevel < available[best].requiredLevel
                     THEN i ELSE best)

\* selectBestSeedFromAvailable on a non-empty list
selectBestSeedFromAvailable(cache, available, preferNoFert, lv, lands) ==
    LET seedIdSet == {available[i].seedId : i \in 1..Len(available)}
        bestByYield == IF lv # 0 /\ lands # 0
                       THEN getBestSeedsForLevel(cache, lv, lands, Some(seedIdSet))
                       ELSE Null
        target == IF IsNull(bestByYield) THEN 0
                  ELSE IF preferNoFert THEN Val(bestByYield).bestNoFert.seedId
                  ELSE Val(bestByYield).bestNormalFert.seedId
        found == FindSeed(available, 1, target)
    IN IF target # 0 /\ found # 0 THEN available[found]
       ELSE available[LowestLevel(available, 2, 1)]

\* findBestSeed after getShopInfo succeeded: Null or Some(seed)
findBestSeed(cache, reply, lv, preferNoFert, optLevel, optLands) ==
    IF Len(reply.goods_list) = 0 THEN Null
    ELSE LET available == AvailableFrom(reply.goods_list, 1, lv)
         IN IF Len(available) = 0 THEN Null
            ELSE Some(selectBestSeedFromAvailable(cache, available, preferNoFert,
                                                  optLevel, optLands))

\* lines 345-354: how many seeds current gold affords (the lands kept)
\* the pipeline without the gold clamp
AffordableLandsUnclamped(landsToPlant, price, money) == landsToPlant

\* autoPlantEmptyLands lines 345-354: the plots the current gold pays for
AffordableLands(landsToPlant, price, money) ==
    IF price * Len(landsToPlant) > money
    THEN SliceTo(landsToPlant, money \div price)
    ELSE landsToPlant

\* how the catalogue reply is classified: the call failed, nothing in it can be
\* bought at level lv, or there is a seed to choose
ShopOutcome(reply, lv) ==
    IF ~reply.ok THEN "failed"
    ELSE IF Len(reply.goods_list) = 0 \/ Len(AvailableFrom(reply.goods_list, 1, lv)) = 0
    THEN "noSeed"
    ELSE "ok"

\* getShopInfo settles (lines 249-358): pick the seed, clamp to gold, buy
ShopReturn(o, reply) ==
    /\ loc[o].pc = "shop"
    /\ LET l == loc[o]
           bestSeed == IF reply.ok
                       THEN findBestSeed(seedYieldCache, reply, level, l.preferNoFert,
                                         l.optLevel, l.optLands)
                       ELSE Null
           usesYield == /\ reply.ok
                        /\ Len(reply.goods_list) > 0
                        /\ Len(AvailableFrom(reply.goods_list, 1, level)) > 0
                        /\ l.optLevel # 0 /\ l.optLands # 0
           lands == IF IsNull(bestSeed) THEN <<>>
                    ELSE AffordableLands(l.landsToPlant, Val(bestSeed).price, gold)
           res == IF IsNull(bestSeed) \/ Len(lands) = 0 THEN Finished(l)
                  ELSE Result([l EXCEPT !.pc = "buy", !.bestSeed = bestSeed,
                                        !.landsToPlant = lands],
                              << [op |-> "BuyGoods", ids |-> <<>>,
                                  goodsId |-> Val(bestSeed).goodsId,
                                  num |-> Len(lands), price |-> Val(bestSeed).price] >>)
       IN /\ seedYieldCache' = IF usesYield
                               THEN buildSeedYieldRows(seedYieldCache, Max(1, l.optLands))
                               ELSE seedYieldCache
          /\ Conclude(o, res)
          /\ ev' = Event("ShopInfo", o, ShopOutcome(reply, level), res.calls)
    /\ UNCHANGED <<isFirstFarmCheck, lastFarmSnapshot, forceFarmCheck, lastUnlockedCount,
                   userVars, clockVars, bestSeedCache, statusBar, frame, pushSeen>>

BuyReply(ok, got, cost) == [ok |-> ok, get_items |-> got, cost_items |-> cost]

\* replies to a purchase of num seeds at price
BuyReplies(seedId, num, price) ==
    { BuyReply(FALSE, <<>>, <<>>),
      BuyReply(TRUE, <<>>, <<>>),
      BuyReply(TRUE, <<BagItem(seedId, num)>>, <<BagItem(1, num * price)>>) }

RECURSIVE SumCounts(_, _)
SumCounts(items, i) == IF i > Len(items) THEN 0 ELSE items[i].count + SumCounts(items, i + 1)

\* a purchase whose failure is logged only: planting starts all the same
BuyReturnPlantingAnyway(o, reply) ==
    /\ loc[o].pc = "buy"
    /\ LET l == loc[o]
           actualSeedId == IF Len(reply.get_items) > 0 /\ reply.get_items[1].id > 0
                           THEN reply.get_items[1].id ELSE Val(l.bestSeed).seedId
           f == SeqBegin("plantSeeds", l.landsToPlant)
           res == Result([l EXCEPT !.pc = "plant", !.actualSeedId = actualSeedId,
                                        !.seq = f],
                              <<SeqCall(f)>>)
       IN /\ gold' = IF reply.ok THEN gold - SumCounts(reply.cost_items, 1) ELSE gold
          /\ Conclude(o, res)
          /\ ev' = Event("BuyGoods", o, IF reply.ok THEN "ok" ELSE "failed", res.calls)
    /\ UNCHANGED <<isFirstFarmCheck, lastFarmSnapshot, forceFarmCheck, lastUnlockedCount,
                   gid, level, clockVars, cacheVars, statusBar, frame, pushSeen>>

\* buyGoods settles (lines 358-381): book the cost, start planting
BuyReturn(o, reply) ==
    /\ loc[o].pc = "buy"
    /\ LET l == loc[o]
           actualSeedId == IF Len(reply.get_items) > 0 /\ reply.get_items[1].id > 0
                           THEN reply.get_items[1].id ELSE Val(l.bestSeed).seedId
           f == SeqBegin("plantSeeds", l.landsToPlant)
           res == IF ~reply.ok THEN Finished(l)
                  ELSE Result([l EXCEPT !.pc = "plant", !.actualSeedId = actualSeedId,
                                        !.seq = f],
                              <<SeqCall(f)>>)
       IN /\ gold' = IF reply.ok THEN gold - SumCounts(reply.cost_items, 1) ELSE gold
          /\ Conclude(o, res)
          /\ ev' = Event("BuyGoods", o, IF reply.ok THEN "ok" ELSE "failed", res.calls)
    /\ UNCHANGED <<isFirstFarmCheck, lastFarmSnapshot, forceFarmCheck, lastUnlockedCount,
                   gid, level, clockVars, cacheVars, statusBar, frame, pushSeen>>

\* the locals after a step of the per-plot sequence inside the pipeline
AfterSeq(l, f) ==
    IF f.pc = "ret"
    THEN IF f.fn = "plantSeeds" THEN EnterFertilize([l EXCEPT !.seq = f])
         ELSE Finished([l EXCEPT !.seq = f])
    ELSE Result([l EXCEPT !.seq = f], IF f.pc = "call" THEN <<SeqCall(f)>> ELSE <<>>)

\* a Plant or Fertilize call of the pipeline settles
SeqReturn(o, ok) ==
    /\ loc[o].pc \in {"plant", "fert"}
    /\ loc[o].seq.pc = "call"
    /\ LET res == AfterSeq(loc[o], SeqSettle(loc[o].seq, ok))
       IN /\ Conclude(o, res)
          /\ ev' = Event(SeqCall(loc[o].seq).op, o, IF ok THEN "ok" ELSE "failed", res.calls)
    /\ UNCHANGED <<isFirstFarmCheck, lastFarmSnapshot, forceFarmCheck, lastUnlockedCount,
                   userVars, clockVars, cacheVars, statusBar, frame, pushSeen>>

\* the 50 ms sleep of a per-plot sequence of the pipeline is over
SeqSleepDone(o) ==
    /\ loc[o].pc \in {"plant", "fert"}
    /\ loc[o].seq.pc = "sleep"
    /\ LET res == AfterSeq(loc[o], SeqWake(loc[o].seq))
       IN /\ Conclude(o, res)
          /\ ev' = Event("sleep", o, "woke", res.calls)
    /\ UNCHANGED <<isFirstFarmCheck, lastFarmSnapshot, forceFarmCheck, lastUnlockedCount,
                   userVars, clockVars, cacheVars, statusBar, frame, pushSeen>>

(***************************************************************************)
(* The scheduler with its cycles                                           *)
(***************************************************************************)
Init ==
    /\ isCheckingFarm = FALSE
    /\ isFirstFarmCheck = TRUE
    /\ farmCheckTimer = "none"
    /\ farmLoopRunning = FALSE
    /\ lastFarmSnapshot = Null
    /\ forceFarmCheck = FALSE
    /\ lastUnlockedCount = 0
    /\ lastPushTime = 0
    /\ listeners = 0
    /\ pushTimers = 0
    /\ loopSleeping = 0
    /\ loc = [o \in Owners |-> IdleLoc]
    /\ gid = FALSE
    /\ level = 0
    /\ gold = 0
    /\ nowMs = StartNowMs
    /\ serverSec = StartSec
    /\ statusBar = [farmLines |-> <<>>, bestSeedLine |-> <<>>]
    /\ ev = Event("init", "none", "none", <<>>)
    /\ bestSeedCache = EmptyBestSeedCache
    /\ seedYieldCache = EmptySeedYieldCache
    /\ pushSeen = [recv |-> 0, sched |-> 0]
    /\ frame = NoFrame

\* settling of the plot fetch and of the care calls
RemoteCare(o, farms) ==
    \/ \E ok \in BOOLEAN, lands \in farms : FetchReturn(o, AllLandsReply(ok, lands))
    \/ \E op \in {"WeedOut", "Insecticide", "WaterLand"}, ok \in BOOLEAN :
          BatchReturn(o, op, ok)

\* settling of the harvest call and of the calls and sleeps of the replant pipeline
RemoteReplant(o) ==
    \/ \E ok \in BOOLEAN : HarvestReturn(o, ok)
    \/ \E ok \in BOOLEAN : ClearReturn(o, ok)
    \/ \E reply \in BagReplies : BagReturn(o, reply)
    \/ \E reply \in ShopReplies : ShopReturn(o, reply)
    \/ /\ loc[o].pc = "buy"
       /\ \E reply \in BuyReplies(Val(loc[o].bestSeed).seedId, Len(loc[o].landsToPlant),
                                  Val(loc[o].bestSeed).price) : BuyReturn(o, reply)
    \/ \E ok \in BOOLEAN : SeqReturn(o, ok)
    \/ SeqSleepDone(o)

\* the scheduler under every trigger, on farms that need care only
Next ==
    \/ startFarmCheckLoop
    \/ stopFarmCheckLoop
    \/ StartTimerFire
    \/ LoopWake
    \/ onLandsChangedPush
    \/ PushTimerFire
    \/ ManualCheckFarm
    \/ Login(5, 0)
    \/ AdvanceMs
    \/ \E o \in Owners : RemoteCare(o, SchedFarms)

Spec == Init /\ [][Next]_vars

(***************************************************************************)
(* The polling loop alone, on farms of every category: the whole cycle     *)
(* with the replant pipeline                                               *)
(***************************************************************************)
\* the loop while server time stands still
NextCycles ==
    \/ startFarmCheckLoop
    \/ stopFarmCheckLoop
    \/ StartTimerFire
    \/ LoopWake
    \/ \E lv \in Levels, money \in Golds : Login(lv, money)
    \/ RemoteCare("loop", LoopFarms)
    \/ RemoteReplant("loop")

SpecCycles == Init /\ [][NextCycles]_vars

\* every timer fires and every awaited remote call or sleep settles
LoopFairness ==
    /\ WF_vars(StartTimerFire)
    /\ WF_vars(LoopWake)
    /\ WF_vars(RemoteCare("loop", LoopFarms))
    /\ WF_vars(RemoteReplant("loop"))

FairSpecCycles == SpecCycles /\ LoopFairness

\* the loop under the server clock
NextLoop ==
    \/ NextCycles
    \/ AdvanceSec

SpecLoop == Init /\ [][NextLoop]_vars

(***************************************************************************)
(* A per-plot operation called directly on a list of plot ids              *)
(***************************************************************************)
RECURSIVE SeqsUpTo(_, _)
\* the sequences over S of length at most n
SeqsUpTo(S, n) ==
    IF n = 0 THEN {<<>>}
    ELSE LET shorter == SeqsUpTo(S, n - 1)
         IN shorter \cup {Append(q, x) : q \in {r \in shorter : Len(r) = n - 1}, x \in S}

ExecCall(fn, landIds) ==
    /\ frame.pc = "ret"
    /\ frame' = SeqBegin(fn, landIds)
    /\ ev' = Event(fn, "direct", "called",
                   IF frame'.pc = "call" THEN <<SeqCall(frame')>> ELSE <<>>)
    /\ UNCHANGED <<ctlVars, schedVars, userVars, clockVars, cacheVars, loc, statusBar,
                   pushSeen>>

ExecSettle(ok) ==
    /\ frame.pc = "call"
    /\ frame' = SeqSettle(frame, ok)
    /\ ev' = Event(SeqCall(frame).op, "direct", IF ok THEN "ok" ELSE "failed",
                   IF frame'.pc = "call" THEN <<SeqCall(frame')>> ELSE <<>>)
    /\ UNCHANGED <<ctlVars, schedVars, userVars, clockVars, cacheVars, loc, statusBar,
                   pushSeen>>

ExecSleepDone ==
    /\ frame.pc = "sleep"
    /\ frame' = SeqWake(frame)
    /\ ev' = Event("sleep", "direct", "woke",
                   IF frame'.pc = "call" THEN <<SeqCall(frame')>> ELSE <<>>)
    /\ UNCHANGED <<ctlVars, schedVars, userVars, clockVars, cacheVars, loc, statusBar,
                   pushSeen>>

NextExec ==
    \/ \E fn \in {"fertilize", "plantSeeds"}, landIds \in SeqsUpTo(PlotIds, MaxIds) :
          ExecCall(fn, landIds)
    \/ \E ok \in BOOLEAN : ExecSettle(ok)
    \/ ExecSleepDone

SpecExec == Init /\ [][NextExec]_vars

(***************************************************************************)
(* shouldCheckFarmNow evaluated on the controller states a refresh can     *)
(* leave behind                                                            *)
(***************************************************************************)
\* the conditions one plot can be in
PlotCases(id) ==
    { Land(id, FALSE, NoPlant), Land(id, TRUE, NoPlant),
      Land(id, TRUE, Some(DeadPlant)), Land(id, TRUE, Some(MaturePlant)),
      Land(id, TRUE, Some(GrowingPlant)), Land(id, TRUE, Some(UnknownPlant)),
      Land(id, TRUE, Some(Plant(2, <<Phase(PhaseSEED, 0)>>, 1, 0, 0))),
      Land(id, TRUE, Some(Plant(2, <<Phase(PhaseSEED, 0)>>, 0, 1, 0))),
      Land(id, TRUE, Some(Plant(2, <<Phase(PhaseSEED, 0)>>, 0, 0, 1))) }

ShouldFarms == {<<a, b>> : a \in PlotCases(1), b \in PlotCases(2)}

\* before the first refresh, or after a refresh of some farm at some time, with
\* or without an accepted push since
InitShould ==
    /\ isCheckingFarm = FALSE
    /\ farmCheckTimer = "none"
    /\ farmLoopRunning = FALSE
    /\ forceFarmCheck \in BOOLEAN
    /\ serverSec \in StartSec..(StartSec + MaxElapsedSec)
    /\ \/ /\ isFirstFarmCheck = TRUE
          /\ lastFarmSnapshot = Null
          /\ lastUnlockedCount = 0
       \/ /\ isFirstFarmCheck = FALSE
          /\ \E farm \in ShouldFarms :
                LET status == analyzeLands(farm, serverSec)
                IN /\ lastFarmSnapshot = Some(buildFarmSnapshot(status))
                   /\ lastUnlockedCount = status.unlockedCount
    /\ lastPushTime = 0
    /\ listeners = 0
    /\ pushTimers = 0
    /\ loopSleeping = 0
    /\ loc = [o \in Owners |-> IdleLoc]
    /\ gid = TRUE
    /\ level = 1
    /\ gold = 0
    /\ nowMs = StartNowMs
    /\ statusBar = [farmLines |-> <<>>, bestSeedLine |-> <<>>]
    /\ ev = Event("init", "none", "none", <<>>)
    /\ bestSeedCache = EmptyBestSeedCache
    /\ seedYieldCache = EmptySeedYieldCache
    /\ pushSeen = [recv |-> 0, sched |-> 0]
    /\ frame = NoFrame

\* one call of shouldCheckFarmNow()
EvalShould ==
    /\ ev' = Event("shouldCheckFarmNow", "direct",
                   IF shouldCheckFarmNow THEN "true" ELSE "false", <<>>)
    /\ UNCHANGED <<ctlVars, schedVars, userVars, clockVars, cacheVars, loc, statusBar,
                   pushSeen, frame>>

NextShould ==
    \/ EvalShould
    \/ AdvanceSec

SpecShould == InitShould /\ [][NextShould]_vars

(***************************************************************************)
(* Every trigger of the scheduler, with timers that fire and remote calls  *)
(* that settle                                                             *)
(***************************************************************************)
SchedFairness ==
    /\ WF_vars(StartTimerFire)
    /\ WF_vars(LoopWake)
    /\ WF_vars(PushTimerFire)
    /\ \A o \in Owners : WF_vars(RemoteCare(o, SchedFarms))

FairSpec == Spec /\ SchedFairness

(***************************************************************************)
(* Properties                                                              *)
(***************************************************************************)

\* C1: at most one farm-check cycle is in flight at any time, and the guard
\* flag is set exactly while one is; a checkFarm invocation that finds the
\* guard set returns at once: it issues no remote call, changes neither the
\* cached snapshot nor any flag, publishes nothing and leaves nothing queued.
C1_SingleCycleInFlight ==
    /\ [](Cardinality(InFlight) <= 1 /\ (isCheckingFarm <=> InFlight # {}))
    /\ [][(ev'.op = "checkFarm" /\ isCheckingFarm)
            => /\ ev'.outcome = "guarded"
               /\ ev'.calls = <<>>
               /\ UNCHANGED <<ctlVars, loc, statusBar, cacheVars, farmLoopRunning,
                              lastPushTime, pushTimers>>]_vars

\* a checkFarm invocation by a logged-in user has just been skipped while
\* another caller's cycle was awaiting the server
C1_Witness ==
    /\ ev.op = "checkFarm"
    /\ ev.outcome = "guarded"
    /\ gid
    /\ isCheckingFarm
    /\ \E o \in Owners : o # ev.by /\ loc[o].pc # "idle"

\* C2: every cycle that entered Checking eventually returns to Idle, whatever
\* path it leaves by, provided its remote calls settle.
C2_CheckingReturnsToIdle == isCheckingFarm ~> ~isCheckingFarm

\* a cycle ran through harvest, clearing, purchase, planting and fertilizing
\* and released the guard when its last call settled
C2_Witness ==
    /\ ev.op = "Fertilize"
    /\ ev.by = "loop"
    /\ ~isCheckingFarm
    /\ loc["loop"].pc = "idle"

\* C3: shouldCheckFarmNow returns true exactly when it is the first check,
\* the forced flag is set, no snapshot exists, the snapshot counts an empty,
\* dead, harvestable, thirsty, weedy or infested plot, or the minimum
\* remaining time is known and, less the time elapsed since the snapshot, is
\* at most 2 seconds; in every other state it returns false.
C3_ShouldCheckRule ==
    ev.op = "shouldCheckFarmNow" =>
        LET due ==
                \/ isFirstFarmCheck
                \/ forceFarmCheck
                \/ IsNull(lastFarmSnapshot)
                \/ LET snap == Val(lastFarmSnapshot)
                   IN \/ snap.emptyCount > 0
                      \/ snap.deadCount > 0
                      \/ snap.harvestableCount > 0
                      \/ snap.needWaterCount > 0
                      \/ snap.needWeedCount > 0
                      \/ snap.needBugCount > 0
                      \/ /\ ~IsNull(snap.minRemainingSec)
                         /\ Val(snap.minRemainingSec)
                              - Max(0, serverSec - snap.serverTimeSec) <= 2
        IN ev.outcome = (IF due THEN "true" ELSE "false")

\* false was returned for a snapshot without a known remaining time
C3_Witness ==
    /\ ev.op = "shouldCheckFarmNow"
    /\ ev.outcome = "false"
    /\ ~IsNull(lastFarmSnapshot)
    /\ IsNull(Val(lastFarmSnapshot).minRemainingSec)
    /\ Val(lastFarmSnapshot).unlockedCount > 0

\* C4: a cycle for which no refresh is warranted issues no remote call and
\* leaves the snapshot, lastUnlockedCount, the first-check flag and the forced
\* flag (and the guard and the caches) as they were; all it does is publish
\* the projection of the existing snapshot, extrapolated to the current time.
C4_SkipIsProjectionOnly ==
    [][(ev'.op = "checkFarm" /\ ~isCheckingFarm /\ gid /\ ~shouldCheckFarmNow)
         => /\ ev'.calls = <<>>
            /\ UNCHANGED <<lastFarmSnapshot, lastUnlockedCount, isFirstFarmCheck,
                           forceFarmCheck, isCheckingFarm, loc, cacheVars>>
            /\ LET lines == buildFarmLinesFromSnapshot(lastFarmSnapshot, serverSec)
               IN IF IsNull(lines) THEN statusBar' = statusBar
                  ELSE /\ statusBar'.farmLines = Val(lines)
                       /\ statusBar'.bestSeedLine \in
                              {statusBar.bestSeedLine, bestSeedCache.line}]_vars

\* the projection of a snapshot has just been republished without a fetch
C4_Witness ==
    /\ ev.op = "checkFarm"
    /\ ev.outcome = "projected"
    /\ ~IsNull(lastFarmSnapshot)
    /\ ~isCheckingFarm
    /\ statusBar.farmLines # <<>>

\* C5 as stated: every landsChanged notification that the debounce does not
\* suppress sets the forced flag and schedules an out-of-band check, whether
\* the controller is Idle or Checking.
C5_EveryPushForces ==
    [][(ev'.op = "landsChanged" /\ ~(nowMs - lastPushTime < PushDebounceMs))
         => (forceFarmCheck' /\ pushTimers' = pushTimers + 1)]_vars

\* C5, amended: a landsChanged notification received while the controller is
\* Idle and not suppressed by the debounce sets the forced flag, records its
\* time and schedules an out-of-band check, and for a logged-in user a plot
\* fetch begins after it; a notification received while a cycle is in flight
\* sets no flag and schedules nothing.
C5_IdlePushForces ==
    /\ [][(ev'.op = "landsChanged" /\ ~isCheckingFarm
             /\ ~(nowMs - lastPushTime < PushDebounceMs))
            => (forceFarmCheck' /\ pushTimers' = pushTimers + 1
                   /\ lastPushTime' = nowMs)]_vars
    /\ [][(ev'.op = "landsChanged" /\ isCheckingFarm)
            => UNCHANGED <<forceFarmCheck, pushTimers, lastPushTime>>]_vars
    /\ ((ev.op = "landsChanged" /\ ev.outcome = "accepted" /\ gid)
          ~> (ev.op = "checkFarm" /\ ev.outcome = "fetch"))

\* the check scheduled by an accepted notification has just started a plot
\* fetch although the cached snapshot asked for none
C5_Witness ==
    /\ ev.op = "checkFarm"
    /\ ev.by = "push"
    /\ ev.outcome = "fetch"
    /\ forceFarmCheck
    /\ ~isFirstFarmCheck
    /\ ~shouldCheckFarmNowOf(FALSE, FALSE, lastFarmSnapshot, serverSec)

\* C6 as stated: a notification received less than 500 ms after another one
\* neither schedules a timer nor changes the last-accepted push time.
C6_SecondOfTwoSuppressed ==
    [][(ev'.op = "landsChanged" /\ pushSeen.recv # 0
          /\ nowMs - pushSeen.recv < 500)
         => UNCHANGED <<pushTimers, lastPushTime>>]_vars

\* C6, amended: of two notifications received less than 500 ms apart at most
\* one schedules an out-of-band check: when the first one scheduled a check,
\* the second neither schedules a timer nor changes the last-accepted push
\* time (nor sets the forced flag).
C6_SecondAfterAcceptedSuppressed ==
    [][(ev'.op = "landsChanged" /\ pushSeen.sched # 0
          /\ nowMs - pushSeen.sched < 500)
         => UNCHANGED <<pushTimers, lastPushTime, forceFarmCheck>>]_vars

\* a notification has just been suppressed in the Idle state, less than
\* 500 ms after one that scheduled a check
C6_Witness ==
    /\ ev.op = "landsChanged"
    /\ ev.outcome = "debounced"
    /\ ~isCheckingFarm
    /\ pushSeen.sched # 0
    /\ pushSeen.recv - pushSeen.sched < 500
    /\ lastPushTime = pushSeen.sched

\* C7 as stated: once stopFarmCheckLoop has returned, and until the loop is
\* started again, no farm-check cycle is started by the loop, by the
\* start-delay timer or by an already scheduled push-triggered check.
C7_StopStartsNoCycle ==
    [][(~farmLoopRunning /\ ev'.op = "checkFarm" /\ ev'.by \in {"loop", "push"})
         => ev'.outcome = "guarded"]_vars

\* C8: no failure inside a cycle stops the loop: after a failed remote call
\* in the loop's cycle, the loop calls checkFarm again unless the running
\* flag is cleared.
C8_LoopSurvivesFailure ==
    (ev.by = "loop" /\ ev.outcome = "failed")
        ~> (~farmLoopRunning \/ (ev.op = "checkFarm" /\ ev.by = "loop"))

\* the plot fetch of the loop's cycle failed, the cycle returned to the loop
\* and the loop went to sleep with the running flag still set
C8_Witness ==
    /\ ev.op = "AllLands"
    /\ ev.by = "loop"
    /\ ev.outcome = "failed"
    /\ farmLoopRunning
    /\ ~isCheckingFarm
    /\ loopSleeping > 0

\* the calls settled so far, in order, are for the ids at the head of the list
AttemptsFollowList ==
    /\ Len(frame.attempts) <= Len(frame.landIds)
    /\ \A i \in 1..Len(frame.attempts) : frame.attempts[i].id = frame.landIds[i]
    /\ frame.pc = "call" => frame.idx = Len(frame.attempts) + 1

Succeeded == {i \in 1..Len(frame.attempts) : frame.attempts[i].ok}

\* C9: fertilize stops at the first failing call: the failed call is the last
\* one it issues, and it returns the number of calls that succeeded before it
\* (all of them when none fails).
C9_FertilizeStopsAtFirstFailure ==
    frame.fn = "fertilize" =>
        /\ AttemptsFollowList
        /\ \A i \in 1..Len(frame.attempts) :
              ~frame.attempts[i].ok => (i = Len(frame.attempts) /\ frame.pc = "ret")
        /\ frame.pc = "ret" =>
              /\ frame.successCount = Cardinality(Succeeded)
              /\ Succeeded = 1..Len(frame.attempts)
                    => Len(frame.attempts) = Len(frame.landIds)

\* fertilize on 3 ids whose 2nd call failed has returned 1
C9_Witness ==
    /\ frame.fn = "fertilize"
    /\ frame.pc = "ret"
    /\ Len(frame.landIds) = 3
    /\ Len(frame.attempts) = 2
    /\ frame.attempts[1].ok
    /\ ~frame.attempts[2].ok
    /\ frame.successCount = 1

\* C10: plantSeeds attempts every id of the list exactly once, in list order,
\* whatever fails, and returns the number of calls that succeeded.
C10_PlantSeedsAttemptsAll ==
    frame.fn = "plantSeeds" =>
        /\ AttemptsFollowList
        /\ frame.pc = "ret" =>
              /\ Len(frame.attempts) = Len(frame.landIds)
              /\ frame.successCount = Cardinality(Succeeded)

\* plantSeeds on 3 ids whose 2nd call failed has returned 2
C10_Witness ==
    /\ frame.fn = "plantSeeds"
    /\ frame.pc = "ret"
    /\ Len(frame.landIds) = 3
    /\ Len(frame.attempts) = 3
    /\ frame.attempts[1].ok
    /\ ~frame.attempts[2].ok
    /\ frame.attempts[3].ok
    /\ frame.successCount = 2

\* C11 as stated: the fertilize calls of a pipeline run are for exactly the
\* plots whose plant call succeeded in that run: no plot whose plant call
\* failed is on the fertilize list and no planted plot is missing from it.
C11_FertilizeExactlyPlanted ==
    \A o \in Owners :
        loc[o].pc = "fert" =>
            \A i \in 1..Len(loc[o].plantLog) :
                loc[o].plantLog[i].ok
                    <=> loc[o].plantLog[i].id \in SeqToSet(loc[o].seq.landIds)

\* the purchase the pipeline of o would make on this catalogue reply
SeedFor(o, reply) ==
    findBestSeed(seedYieldCache, reply, level, loc[o].preferNoFert,
                 loc[o].optLevel, loc[o].optLands)

\* C12: the pipeline never buys more seed units than the gold affords: the
\* purchased quantity q has q * price <= gold and 1 <= q <= plots to plant,
\* the plots handed to plantSeeds are the first q of the list, and when the
\* gold pays for no unit the pipeline ends without a buy, plant or fertilize
\* call; plant and fertilize calls follow a purchase only.
C12_BuyWithinGold ==
    [][\A o \in Owners :
          /\ (loc[o].pc = "shop" /\ loc'[o].pc = "buy")
                => LET c == ev'.calls[1]
                   IN /\ Len(ev'.calls) = 1
                      /\ c.op = "BuyGoods"
                      /\ c.num >= 1
                      /\ c.num * c.price <= gold
                      /\ c.num <= Len(loc[o].landsToPlant)
                      /\ loc'[o].landsToPlant = SubSeq(loc[o].landsToPlant, 1, c.num)
          /\ (loc[o].pc = "shop" /\ loc'[o].pc \notin {"shop", "buy"})
                => (ev'.calls = <<>> /\ loc'[o].pc = "idle")
          /\ (loc[o].pc = "shop" /\ ev'.op = "ShopInfo" /\ ev'.outcome = "ok"
                /\ ev'.calls # <<>>)
                => gold \div ev'.calls[1].price >= 1
          /\ (loc[o].pc # "plant" /\ loc'[o].pc = "plant")
                => (loc[o].pc = "buy" /\ loc'[o].seq.landIds = loc[o].landsToPlant)
          /\ (loc[o].pc # "fert" /\ loc'[o].pc = "fert") => loc[o].pc = "plant"]_vars

\* the gold paid for fewer seeds than there were plots: the pipeline bought
\* for the first plot only
C12_Witness ==
    /\ ev.op = "ShopInfo"
    /\ loc["loop"].pc = "buy"
    /\ Len(ev.calls) = 1
    /\ ev.calls[1].num = 1
    /\ ev.calls[1].price * 2 > gold
    /\ Len(Val(loc["loop"].status).empty) + Len(Val(loc["loop"].status).dead)
          + Len(loc["loop"].harvested) = 2

\* the remote calls of a step that carry the operation op
CallsOf(calls, op) == {i \in 1..Len(calls) : calls[i].op = op}

\* C13: the weed, de-bug and water calls of a cycle are issued together,
\* each exactly when its plot list is non-empty, so none waits for a sibling;
\* whatever the outcome of each, once all have settled the cycle goes on to
\* the harvest call (if anything is harvestable), else to the replant
\* pipeline (if anything is dead or empty), and only otherwise ends.
C13_BatchFailuresIsolated ==
    [][\A o \in Owners :
          /\ (loc[o].pc = "fetch" /\ ev'.op = "AllLands" /\ ev'.outcome = "analyzed")
                => LET snap == Val(lastFarmSnapshot')
                   IN /\ Cardinality(CallsOf(ev'.calls, "WeedOut"))
                            = IF snap.needWeedCount > 0 THEN 1 ELSE 0
                      /\ Cardinality(CallsOf(ev'.calls, "Insecticide"))
                            = IF snap.needBugCount > 0 THEN 1 ELSE 0
                      /\ Cardinality(CallsOf(ev'.calls, "WaterLand"))
                            = IF snap.needWaterCount > 0 THEN 1 ELSE 0
          /\ (loc[o].pc = "batch" /\ loc'[o] # loc[o])
                => LET st == Val(loc[o].status)
                   IN IF loc'[o].pc = "batch"
                      THEN /\ ev'.calls = <<>>
                           /\ loc'[o].pending # {}
                           /\ loc'[o].pending = loc[o].pending \ {ev'.op}
                      ELSE /\ loc[o].pending = {ev'.op}
                           /\ IF Len(st.harvestable) > 0
                              THEN /\ loc'[o].pc = "harvest"
                                   /\ ev'.calls = <<Call("Harvest", st.harvestable)>>
                              ELSE IF Len(st.dead) > 0
                              THEN /\ loc'[o].pc = "clear"
                                   /\ ev'.calls = <<Call("RemovePlant", st.dead)>>
                              ELSE IF Len(st.empty) > 0
                              THEN /\ loc'[o].pc = "bag"
                                   /\ ev'.calls = <<Call("Bag", <<>>)>>
                              ELSE /\ loc'[o].pc = "idle"
                                   /\ ev'.calls = <<>>]_vars

\* the last batch call of a cycle failed and the harvest call was issued
C13_Witness ==
    /\ ev.op \in {"WeedOut", "Insecticide", "WaterLand"}
    /\ ev.outcome = "failed"
    /\ loc["loop"].pc = "harvest"
    /\ Len(ev.calls) = 1
    /\ ev.calls[1].op = "Harvest"

\* C14: when the plot fetch returns no plots the cycle ends at once: no
\* remote call is issued, the snapshot, the unlocked-plot count, the
\* first-check flag, the forced flag, the caches and the status bar stay as
\* they were, the guard is released, and a running loop goes on to its sleep.
C14_EmptyFetchEndsCycle ==
    [][\A o \in Owners :
          (loc[o].pc = "fetch" /\ ev'.op = "AllLands" /\ ev'.by = o
             /\ ev'.outcome = "noLands")
            => /\ ev'.calls = <<>>
               /\ UNCHANGED <<lastFarmSnapshot, lastUnlockedCount, isFirstFarmCheck,
                              forceFarmCheck, cacheVars, statusBar>>
               /\ ~isCheckingFarm'
               /\ loc'[o].pc = "idle"
               /\ (o = "loop" /\ farmLoopRunning)
                     => loopSleeping' = loopSleeping + 1]_vars

\* the first fetch of a running loop returned no plots: the cycle is over,
\* nothing is cached and the loop sleeps
C14_Witness ==
    /\ ev.op = "AllLands"
    /\ ev.by = "loop"
    /\ ev.outcome = "noLands"
    /\ isFirstFarmCheck
    /\ IsNull(lastFarmSnapshot)
    /\ ~isCheckingFarm
    /\ farmLoopRunning
    /\ loopSleeping > 0

(***************************************************************************)
(* The analyzer and the optimizer called directly on enumerated inputs     *)
(***************************************************************************)
\* activation of a directly called function that has returned; the analyzer and
\* the phase lookup are called once, the optimizer a second time after a call
\* without filter (as findBestSeed calls it after ensureBestSeedCache)
CallFrame(fn, args, result) == [fn |-> fn, pc |-> "ret", args |-> args, result |-> result]

\* phases as the server may send them: unset, past, present or future begin
PhaseInputs ==
    {Phase(ph, begin) : ph \in {PhaseSEED, PhaseMATURE, PhaseDEAD},
                        begin \in {0, StartSec - 1, StartSec, StartSec + 1}}

PhaseLists == SeqsUpTo(PhaseInputs, MaxPhases) \ {<<>>}

\* plots in every condition, with afflictions by marker or by time threshold
PlotInputs(id) ==
    PlotCases(id)
      \cup { Land(id, TRUE, Some(Plant(2, <<[Phase(PhaseSEED, StartSec - 1)
                                               EXCEPT !.dry_time = StartSec + 1]>>,
                                       0, 0, 0))),
             Land(id, TRUE, Some(Plant(1, <<[Phase(PhaseSEED, StartSec - 1)
                                               EXCEPT !.weeds_time = StartSec,
                                                      !.insect_time = StartSec + 2]>>,
                                       0, 0, 1))),
             Land(id, TRUE, Some(Plant(2, <<Phase(PhaseDEAD, StartSec - 1)>>, 1, 1, 1))),
             Land(id, TRUE, Some(Plant(1, <<[Phase(PhaseMATURE, StartSec - 1)
                                               EXCEPT !.dry_time = StartSec - 1]>>,
                                       0, 1, 0))),
             Land(id, FALSE, Some(MaturePlant)) }

RECURSIVE FarmsUpTo(_)
FarmsUpTo(n) ==
    IF n = 0 THEN {<<>>}
    ELSE LET shorter == FarmsUpTo(n - 1)
         IN shorter \cup {Append(q, x) : q \in {r \in shorter : Len(r) = n - 1},
                                         x \in PlotInputs(n)}

CallAnalyzeLands(lands) ==
    /\ frame = NoFrame
    /\ frame' = CallFrame("analyzeLands", [lands |-> lands, nowSec |-> serverSec],
                          analyzeLands(lands, serverSec))
    /\ ev' = Event("analyzeLands", "direct", "returned", <<>>)
    /\ UNCHANGED <<ctlVars, schedVars, userVars, clockVars, cacheVars, loc, statusBar,
                   pushSeen>>

CallGetCurrentPhase(phases) ==
    /\ frame = NoFrame
    /\ frame' = CallFrame("getCurrentPhase", [phases |-> phases, nowSec |-> serverSec],
                          getCurrentPhase(phases, serverSec))
    /\ ev' = Event("getCurrentPhase", "direct", "returned", <<>>)
    /\ UNCHANGED <<ctlVars, schedVars, userVars, clockVars, cacheVars, loc, statusBar,
                   pushSeen>>

\* getBestSeedsForLevel leaves the yield rows it built in seedYieldCache
CallGetBestSeeds(lv, lands, seedIdSet) ==
    /\ \/ frame = NoFrame
       \/ frame.fn = "getBestSeedsForLevel" /\ IsNull(frame.args.seedIdSet)
    /\ frame' = CallFrame("getBestSeedsForLevel",
                          [level |-> lv, lands |-> lands, seedIdSet |-> seedIdSet],
                          getBestSeedsForLevel(seedYieldCache, lv, lands, seedIdSet))
    /\ seedYieldCache' = buildSeedYieldRows(seedYieldCache, Max(1, lands))
    /\ ev' = Event("getBestSeedsForLevel", "direct", "returned", <<>>)
    /\ UNCHANGED <<ctlVars, schedVars, userVars, clockVars, bestSeedCache, loc, statusBar,
                   pushSeen>>

\* total grow times handed to getRemainingToMatureInfo: those of the plant table
\* (0 for a plant without one) and one shorter than the time a plant has grown
GrowTimeInputs == {getPlantGrowTime(p) : p \in PlantIds} \cup {1}

CallGetRemaining(phases, totalGrowTime) ==
    /\ frame = NoFrame
    /\ frame' = CallFrame("getRemainingToMatureInfo",
                          [phases |-> phases, nowSec |-> serverSec,
                           totalGrowTime |-> totalGrowTime],
                          getRemainingToMatureInfo(phases, serverSec, totalGrowTime))
    /\ ev' = Event("getRemainingToMatureInfo", "direct", "returned", <<>>)
    /\ UNCHANGED <<ctlVars, schedVars, userVars, clockVars, cacheVars, loc, statusBar,
                   pushSeen>>

SeedIds == {SeedShopRows[i].seedId : i \in 1..Len(SeedShopRows)}

\* the levels of a login and one that unlocks every seed of the table
CallLevels == Levels \cup {9}

\* a direct call is made while no call has been made yet
NotCalledYet == frame = NoFrame

\* the analyzer on bounded farms at every second of the model
NextAnalyze ==
    \/ NotCalledYet /\ \E lands \in FarmsUpTo(MaxLands) : CallAnalyzeLands(lands)
    \/ AdvanceSec

SpecAnalyze == Init /\ [][NextAnalyze]_vars

\* the two phase functions on bounded phase lists at every second of the model
NextPhases ==
    \/ NotCalledYet /\ \E phases \in PhaseLists : CallGetCurrentPhase(phases)
    \/ NotCalledYet /\ \E phases \in PhaseLists \cup {<<>>}, total \in GrowTimeInputs :
                          CallGetRemaining(phases, total)
    \/ AdvanceSec

SpecPhases == Init /\ [][NextPhases]_vars

\* the optimizer, which does not look at the time
NextSeeds ==
    /\ NotCalledYet \/ (frame.fn = "getBestSeedsForLevel" /\ IsNull(frame.args.seedIdSet))
    /\ \E lv \in CallLevels, lands \in 1..MaxLands, ids \in SUBSET SeedIds :
          \/ CallGetBestSeeds(lv, lands, Some(ids))
          \/ CallGetBestSeeds(lv, lands, Null)

SpecSeeds == Init /\ [][NextSeeds]_vars

\* how many times x occurs in the sequence q
Occurrences(q, x) == Cardinality({i \in 1..Len(q) : q[i] = x})

\* C15: analyzeLands partitions the unlocked plots: the id of every unlocked plot
\* is in exactly one of the lists empty, dead, harvestable and growing, and there
\* once; no locked plot is in any list, the three needs lists included; and
\* unlockedCount is the number of unlocked plots and the sum of the lengths of
\* the four lists.
C15_AnalyzerPartitions ==
    frame.fn = "analyzeLands" =>
        LET lands == frame.args.lands
            r == frame.result
            four == r.empty \o r.dead \o r.harvestable \o r.growing
            needs == r.needWater \o r.needWeed \o r.needBug
            unlockedIdx == {i \in 1..Len(lands) : lands[i].unlocked}
        IN /\ \A i \in 1..Len(lands) :
                 IF lands[i].unlocked
                 THEN Occurrences(four, lands[i].id) = 1
                 ELSE Occurrences(four \o needs, lands[i].id) = 0
           /\ r.unlockedCount = Cardinality(unlockedIdx)
           /\ r.unlockedCount = Len(four)

\* a farm with a locked plot that carries a plant, next to an unlocked growing one
C15_Witness ==
    /\ frame.fn = "analyzeLands"
    /\ Len(frame.args.lands) = 2
    /\ ~frame.args.lands[1].unlocked /\ ~IsNull(frame.args.lands[1].plant)
    /\ frame.result.growing = <<2>>
    /\ frame.result.needWater = <<2>>

\* the phases of the list that have begun: begin time set and not after nowSec
Begun(phases, nowSec) ==
    {i \in 1..Len(phases) : /\ toTimeSec(phases[i].begin_time) > 0
                            /\ toTimeSec(phases[i].begin_time) <= nowSec}

\* C16 as stated: when some phase has begun, getCurrentPhase returns a begun phase
\* with the greatest begin time, otherwise the first listed phase.
C16_ChronologicallyLatest ==
    frame.fn = "getCurrentPhase" =>
        LET phases == frame.args.phases
            begun == Begun(phases, frame.args.nowSec)
        IN IF begun # {}
           THEN \E i \in begun :
                   /\ frame.result = Some(phases[i])
                   /\ \A j \in begun : toTimeSec(phases[j].begin_time)
                                          <= toTimeSec(phases[i].begin_time)
           ELSE frame.result = Some(phases[1])

\* C16: when some phase has begun, getCurrentPhase returns the begun phase that is
\* last in list order, which is the chronologically latest one when the begun
\* phases are listed in begin-time order; when every begin time is zero or in the
\* future it returns the first listed phase.
C16_LastBegunInListOrder ==
    frame.fn = "getCurrentPhase" =>
        LET phases == frame.args.phases
            begun == Begun(phases, frame.args.nowSec)
            last == CHOOSE i \in begun : \A j \in begun : j <= i
            inOrder == \A i, j \in begun :
                          i <= j => toTimeSec(phases[i].begin_time)
                                       <= toTimeSec(phases[j].begin_time)
        IN IF begun # {}
           THEN /\ frame.result = Some(phases[last])
                /\ inOrder => \A j \in begun : toTimeSec(phases[j].begin_time)
                                                  <= toTimeSec(phases[last].begin_time)
           ELSE frame.result = Some(phases[1])

\* two begun phases listed against their begin times: the later listed is returned
C16_Witness ==
    /\ frame.fn = "getCurrentPhase"
    /\ Len(frame.args.phases) = 2
    /\ Begun(frame.args.phases, frame.args.nowSec) = {1, 2}
    /\ toTimeSec(frame.args.phases[1].begin_time) > toTimeSec(frame.args.phases[2].begin_time)
    /\ frame.result = Some(frame.args.phases[2])

\* the yield table getBestSeedsForLevel selects from, for a number of plots
YieldTable(lands) == YieldRowsFrom(1, Max(1, lands))

\* the rows of the table that qualify: level reached, unlocked, in the filter set
Qualifying(rows, lv, seedIdSet) ==
    {i \in 1..Len(rows) : /\ rows[i].requiredLevel <= lv
                          /\ rows[i].unlocked
                          /\ (IsNull(seedIdSet) \/ rows[i].seedId \in Val(seedIdSet))}

\* row i is the first of the qualifying rows q with the greatest rate under key
FirstMaximum(rows, q, i, key) ==
    /\ i \in q
    /\ \A j \in q : ~FracGT(rows[j][key], rows[i][key])
    /\ \A j \in q : j < i => FracGT(rows[i][key], rows[j][key])

C17_TieWitness ==
    /\ frame.fn = "getBestSeedsForLevel"
    /\ frame.args.seedIdSet = Some({1, 2, 3, 6})
    /\ frame.args.level = 1
    /\ ~IsNull(frame.result)
    /\ Val(frame.result).bestNoFert.seedId = 1

(***************************************************************************)
(* The level-change notification, next to the polling loop                 *)
(***************************************************************************)
\* a handler that treats the notification like a plot push: it asks for a refresh
onLevelChangedForcing(lv) ==
    /\ listeners > 0
    /\ forceFarmCheck' = TRUE
    /\ ev' = Event("levelChanged", "net", "forced", <<>>)
    /\ UNCHANGED <<isCheckingFarm, isFirstFarmCheck, lastFarmSnapshot, lastUnlockedCount,
                   schedVars, userVars, clockVars, cacheVars, loc, statusBar, frame,
                   pushSeen>>

\* the levelChanged listener runs with the level the notification carries
onLevelChanged(lv) ==
    /\ listeners > 0
    /\ IF lv = 0 \/ lastUnlockedCount = 0
       THEN /\ ev' = Event("levelChanged", "net", "ignored", <<>>)
            /\ UNCHANGED <<cacheVars, statusBar>>
       ELSE LET cache == ensureBestSeedCache(bestSeedCache, seedYieldCache,
                                             lv, lastUnlockedCount)
            IN /\ bestSeedCache' = cache.cache
               /\ seedYieldCache' = cache.yield
               /\ statusBar' = IF cache.hit /\ cache.cache.line # <<>>
                               THEN [statusBar EXCEPT !.bestSeedLine = cache.cache.line]
                               ELSE statusBar
               /\ ev' = Event("levelChanged", "net", "refreshed", <<>>)
    /\ UNCHANGED <<ctlVars, schedVars, userVars, clockVars, loc, frame, pushSeen>>

\* levels a notification may carry: none, and the levels of the model
LevelInputs == {0} \cup Levels

NextLevel ==
    \/ NextCycles
    \/ \E lv \in LevelInputs : onLevelChanged(lv)

SpecLevel == Init /\ [][NextLevel]_vars

\* C18: a levelChanged notification only refreshes the Best-Seed Cache and its
\* display line: it issues no remote call and leaves the cached snapshot, the
\* forced flag, the first-check flag, the guard, the cached unlocked-plot count
\* and every cycle in flight as they are; of the status bar only the best-seed
\* line may change, and only to the line of the cache.
C18_LevelChangedOnlyRefreshesCache ==
    [][ev'.op = "levelChanged" =>
           /\ ev'.calls = <<>>
           /\ UNCHANGED <<lastFarmSnapshot, forceFarmCheck, isFirstFarmCheck,
                          isCheckingFarm, lastUnlockedCount, loc>>
           /\ statusBar'.farmLines = statusBar.farmLines
           /\ statusBar'.bestSeedLine \in {statusBar.bestSeedLine, bestSeedCache'.line}]_vars

\* a notification has replaced the best-seed cache and line while a cycle that
\* had asked for a refresh of another level is waiting for a remote call
C18_Witness ==
    /\ ev.op = "levelChanged"
    /\ ev.outcome = "refreshed"
    /\ isCheckingFarm
    /\ loc["loop"].pc \notin {"idle", "fetch"}
    /\ bestSeedCache.level # level
    /\ statusBar.bestSeedLine = bestSeedCache.line

\* the calls of a step that change the farm: every call but the plot fetch
Mutating(calls) == {i \in 1..Len(calls) : calls[i].op # "AllLands"}

\* C19: when the plot fetch of a cycle returns at least one plot, the cached
\* snapshot becomes the one built from this fetch, the cached unlocked-plot
\* count becomes the count of this fetch (kept when that count is zero) and the
\* first-check and forced flags are cleared, in the step that issues the first
\* mutating call of the cycle or before it; from then on until the cycle ends
\* the snapshot is not changed.
C19_RefreshBeforeMutation ==
    [][\A o \in Owners :
          /\ (loc[o].pc = "fetch" /\ ev'.op = "AllLands" /\ ev'.by = o
                /\ ev'.outcome = "analyzed")
               => \E lands \in SchedFarms :
                     LET status == analyzeLands(lands, serverSec)
                     IN /\ Len(lands) > 0
                        /\ lastFarmSnapshot' = Some(buildFarmSnapshot(status))
                        /\ lastUnlockedCount' = IF status.unlockedCount # 0
                                                THEN status.unlockedCount
                                                ELSE lastUnlockedCount
                        /\ ~isFirstFarmCheck'
                        /\ ~forceFarmCheck'
                        /\ loc'[o].pc # "idle" => loc'[o].status = Some(status)
          /\ (loc[o].pc \in {"idle", "fetch"} /\ ev'.by = o)
               => (Mutating(ev'.calls) # {} => ev'.outcome = "analyzed")
          /\ (ev'.by = o /\ Mutating(ev'.calls) # {})
               => /\ lastFarmSnapshot' = Some(buildFarmSnapshot(Val(loc'[o].status)))
                  /\ lastUnlockedCount' = Val(lastFarmSnapshot').unlockedCount
                  /\ ~isFirstFarmCheck'
                  /\ ~forceFarmCheck'
          /\ loc[o].pc \notin {"idle", "fetch"} => UNCHANGED lastFarmSnapshot]_vars

\* a cycle started by a push has fetched a farm, stored its snapshot, cleared
\* the forced flag and issued its first mutating call
C19_Witness ==
    /\ ev.op = "AllLands"
    /\ ev.by = "push"
    /\ ev.outcome = "analyzed"
    /\ Mutating(ev.calls) # {}
    /\ loc["push"].pc = "batch"
    /\ lastFarmSnapshot = Some(buildFarmSnapshot(Val(loc["push"].status)))
    /\ ~forceFarmCheck

BatchOps == {"WeedOut", "Insecticide", "WaterLand"}

\* the operations among the calls a step issues
OpsOf(calls) == {calls[i].op : i \in 1..Len(calls)}

\* C20: within one cycle the harvest call is issued only when every issued water,
\* weed and de-bug call has settled, succeeded or failed, and the first call of
\* the replant pipeline (the clear call, or the fertilizer-stock query when
\* nothing is to be cleared) only when the harvest call, if one was issued, has
\* settled too.
C20_BatchThenHarvestThenReplant ==
    [][\A o \in Owners :
          ev'.by = o =>
             /\ "Harvest" \in OpsOf(ev'.calls)
                  => /\ loc[o].pending \subseteq {ev'.op}
                     /\ loc'[o].pending = {}
                     /\ OpsOf(ev'.calls) \cap BatchOps = {}
                     /\ loc[o].pc \in {"fetch", "batch"}
             /\ OpsOf(ev'.calls) \cap {"RemovePlant", "Bag"} # {}
                  => /\ loc[o].pending \subseteq {ev'.op}
                     /\ loc'[o].pending = {}
                     /\ OpsOf(ev'.calls) \cap (BatchOps \cup {"Harvest"}) = {}
                     /\ loc[o].pc = "harvest" => ev'.op = "Harvest"
                     /\ loc'[o].pc \notin {"batch", "harvest"}
             /\ (loc[o].pc = "batch" /\ loc'[o].pc = "batch")
                  => ev'.calls = <<>>
             /\ (loc[o].pc = "harvest" /\ ev'.op # "Harvest")
                  => ev'.calls = <<>>]_vars

\* the harvest call of a cycle that had watered first has settled and the clear
\* call of the replant pipeline is issued
C20_Witness ==
    /\ ev.op = "Harvest"
    /\ ev.by = "loop"
    /\ OpsOf(ev.calls) = {"RemovePlant"}
    /\ loc["loop"].pc = "clear"
    /\ Val(loc["loop"].status).needWater # <<>>

\* the pipeline's stages and the calls that belong to them
PipelineOps == {"RemovePlant", "Bag", "ShopInfo", "BuyGoods", "Plant", "Fertilize"}

\* the remote call, or the sleep, a cycle at pc is waiting for
AwaitedAt(pc) ==
    CASE pc = "fetch" -> {"AllLands"}
      [] pc = "batch" -> BatchOps
      [] pc = "harvest" -> {"Harvest"}
      [] pc = "clear" -> {"RemovePlant"}
      [] pc = "bag" -> {"Bag"}
      [] pc = "shop" -> {"ShopInfo"}
      [] pc = "buy" -> {"BuyGoods"}
      [] pc = "plant" -> {"Plant", "sleep"}
      [] pc = "fert" -> {"Fertilize", "sleep"}
      [] OTHER -> {}

\* the events in which an awaited call or sleep of a cycle settles
SettleOps == BatchOps \cup PipelineOps \cup {"AllLands", "Harvest", "sleep"}

\* the cycle of o has returned to its caller in this step
ReturnsNormally(o) ==
    /\ loc'[o].pc = "idle"
    /\ ~isCheckingFarm'
    /\ (o = "loop" /\ farmLoopRunning) => loopSleeping' = loopSleeping + 1

\* C21: the replant pipeline issues its stages in the order clear (one call for
\* all dead and just-harvested ids), fertilizer-stock query, seed-shop query, buy,
\* plant, fertilize: each call is issued alone, in the step in which the call of
\* the stage before it settles; and when the shop query fails, no seed can be
\* bought or the buy call fails, no further call is issued and the cycle returns
\* to its caller as after a cycle that did all its work.
C21_PipelineStagesInOrder ==
    [][\A o \in Owners :
          (ev'.by = o /\ ev'.op \in SettleOps) =>
             /\ ev'.op \in AwaitedAt(loc[o].pc)
             /\ OpsOf(ev'.calls) \cap PipelineOps # {} => Len(ev'.calls) = 1
             /\ "RemovePlant" \in OpsOf(ev'.calls)
                  => /\ loc[o].pc \in {"fetch", "batch", "harvest"}
                     /\ ev'.calls[1].ids = Val(loc'[o].status).dead \o loc'[o].harvested
             /\ "Bag" \in OpsOf(ev'.calls)
                  => \/ loc[o].pc = "clear"
                     \/ /\ loc[o].pc \in {"fetch", "batch", "harvest"}
                        /\ Val(loc'[o].status).dead \o loc'[o].harvested = <<>>
             /\ "ShopInfo" \in OpsOf(ev'.calls) => loc[o].pc = "bag"
             /\ "BuyGoods" \in OpsOf(ev'.calls)
                  => (loc[o].pc = "shop" /\ ev'.outcome = "ok")
             /\ "Plant" \in OpsOf(ev'.calls)
                  => \/ loc[o].pc = "buy" /\ ev'.outcome = "ok"
                     \/ loc[o].pc = "plant"
             /\ "Fertilize" \in OpsOf(ev'.calls) => loc[o].pc \in {"plant", "fert"}
             /\ (ev'.op = "ShopInfo" /\ ev'.outcome \in {"failed", "noSeed"})
                  => (ev'.calls = <<>> /\ ReturnsNormally(o))
             /\ (ev'.op = "BuyGoods" /\ ev'.outcome = "failed")
                  => (ev'.calls = <<>> /\ ReturnsNormally(o))]_vars

\* a pipeline that began with a clear call has reached its fertilize stage
C21_Witness ==
    /\ loc["loop"].pc = "fert"
    /\ loc["loop"].deadIds # <<>>
    /\ ev.by = "loop"
    /\ OpsOf(ev.calls) = {"Fertilize"}

\* the buy call failed: the cycle is over and nothing was planted
C21_BuyFailedWitness ==
    /\ ev.op = "BuyGoods" /\ ev.outcome = "failed" /\ ev.by = "loop"
    /\ loc["loop"].pc = "idle"

\* the catalogue held nothing to buy: the cycle is over
C21_NoSeedWitness ==
    /\ ev.op = "ShopInfo" /\ ev.outcome = "noSeed" /\ ev.by = "loop"
    /\ loc["loop"].pc = "idle"

\* C22: every Fertilize and every Plant call addresses exactly one plot id; a call
\* of a sequence is issued either on entry, as its first, or when the sleep that
\* followed the settling of the previous call is over, so that two calls of a
\* sequence never overlap and a delay step lies between any two consecutive ones.
C22_OneIdPerCallWithDelay ==
    [][ev'.calls # <<>> =>
          /\ Len(ev'.calls) = 1
          /\ ev'.calls[1].op \in {"Plant", "Fertilize"}
          /\ Len(ev'.calls[1].ids) = 1
          /\ ev'.calls[1].ids[1] = frame'.landIds[frame'.idx]
          /\ frame.pc # "call"
          /\ frame'.pc = "call"
          /\ \/ ev'.outcome = "called" /\ frame'.idx = 1
             \/ /\ ev'.op = "sleep"
                /\ frame.pc = "sleep"
                /\ frame'.idx = frame.idx + 1
                /\ Len(frame.attempts) = frame.idx]_vars

\* the second call of a plantSeeds sequence is issued as the sleep after the
\* first, failed, call ends
C22_Witness ==
    /\ frame.fn = "plantSeeds"
    /\ ev.op = "sleep"
    /\ frame.pc = "call"
    /\ frame.idx = 2
    /\ ~frame.attempts[1].ok
    /\ ev.calls = <<Call("Plant", <<frame.landIds[2]>>)>>

\* the current phase of a non-empty phase list: the last begun one, else the first
CurrentPhaseOf(phases, nowSec) ==
    IF Begun(phases, nowSec) = {} THEN phases[1]
    ELSE phases[CHOOSE i \in Begun(phases, nowSec) : \A j \in Begun(phases, nowSec) : j <= i]

\* the threshold t of a phase is set and reached
Reached(t, nowSec) == toTimeSec(t) # 0 /\ toTimeSec(t) <= nowSec

\* C23: a plot is in the needs-water list iff it is classified growing and its
\* dryness counter is positive or the dry-time of its current phase is non-zero
\* and <= now; it is in the needs-weed (needs-bug) list iff it is classified
\* growing and its weed (insect) owners are non-empty or the weed-time
\* (insect-time) of its current phase is non-zero and <= now.  So owners on a
\* growing plot set the flag whatever the thresholds are, and locked, empty, dead
\* and harvestable plots are never flagged.
C23_NeedsFlagsOfGrowingPlots ==
    frame.fn = "analyzeLands" =>
        LET lands == frame.args.lands
            now == frame.args.nowSec
            r == frame.result
        IN \A i \in 1..Len(lands) :
              LET id == lands[i].id
                  isGrowing == id \in SeqToSet(r.growing)
                  plant == Val(lands[i].plant)
                  cur == CurrentPhaseOf(plant.phases, now)
              IN /\ id \in SeqToSet(r.needWater)
                      <=> (isGrowing /\ (plant.dry_num > 0 \/ Reached(cur.dry_time, now)))
                 /\ id \in SeqToSet(r.needWeed)
                      <=> (isGrowing /\ (plant.weed_owners > 0
                                           \/ Reached(cur.weeds_time, now)))
                 /\ id \in SeqToSet(r.needBug)
                      <=> (isGrowing /\ (plant.insect_owners > 0
                                           \/ Reached(cur.insect_time, now)))
                 /\ ~isGrowing => id \notin SeqToSet(r.needWater \o r.needWeed \o r.needBug)

\* a growing plot whose insect threshold lies in the future is flagged for its
\* insect owner and for its reached weed threshold, and an afflicted dead plot
\* next to it is flagged for nothing
C23_Witness ==
    /\ frame.fn = "analyzeLands"
    /\ Len(frame.args.lands) = 2
    /\ frame.result.growing = <<1>>
    /\ frame.result.dead = <<2>>
    /\ Val(frame.args.lands[2].plant).dry_num > 0
    /\ Val(frame.args.lands[1].plant).insect_owners > 0
    /\ Val(frame.args.lands[1].plant).phases[1].insect_time > frame.args.nowSec
    /\ frame.result.needBug = <<1>>
    /\ frame.result.needWeed = <<1>>
    /\ frame.result.needWater = <<>>

\* the non-zero begin times of the phases of a list, all or the MATURE ones only
BeginTimes(phases, onlyMature) ==
    {toTimeSec(phases[i].begin_time) :
        i \in {j \in 1..Len(phases) : /\ toTimeSec(phases[j].begin_time) # 0
                                      /\ onlyMature => phases[j].phase = PhaseMATURE}}

Least(S) == CHOOSE x \in S : \A y \in S : x <= y

\* C24: getRemainingToMatureInfo never returns a negative remaining time; when a
\* MATURE phase with a non-zero begin time exists the result is
\* max(0, earliest MATURE begin - now), whether or not a total grow time is
\* given; otherwise, with a positive total grow time and a non-zero earliest
\* begin time, it is max(0, total - max(0, now - earliest begin)); otherwise the
\* result is marked unknown.
C24_RemainingToMature ==
    frame.fn = "getRemainingToMatureInfo" =>
        LET phases == frame.args.phases
            now == frame.args.nowSec
            total == frame.args.totalGrowTime
            mature == BeginTimes(phases, TRUE)
            begins == BeginTimes(phases, FALSE)
            r == frame.result
        IN /\ r.remainingSec >= 0
           /\ IF mature # {}
              THEN r.known /\ r.remainingSec = Max(0, Least(mature) - now)
              ELSE IF total > 0 /\ begins # {}
              THEN r.known
                   /\ r.remainingSec = Max(0, total - Max(0, now - Least(begins)))
              ELSE ~r.known

\* a MATURE begin time and a total grow time that would give another figure
C24_Witness ==
    /\ frame.fn = "getRemainingToMatureInfo"
    /\ frame.args.totalGrowTime > 1
    /\ BeginTimes(frame.args.phases, TRUE) = {frame.args.nowSec + 1}
    /\ BeginTimes(frame.args.phases, FALSE) = {frame.args.nowSec + 1, frame.args.nowSec}
    /\ frame.result = [remainingSec |-> 1, known |-> TRUE]

\* the growing plots of a snapshot whose remaining time is known
KnownGrowing(snapshot) ==
    {i \in 1..Len(snapshot.landSnapshots) :
        /\ snapshot.landSnapshots[i].type = "growing"
        /\ snapshot.landSnapshots[i].remainingKnown}

\* C25: the minimum remaining time of the snapshot built from an analysis is the
\* least remaining time of the growing plots whose remaining time is known, each
\* as getRemainingToMatureInfo gives it for the plot, and is null exactly when no
\* growing plot has a known remaining time; a plot of unknown remaining time,
\* recorded with 0, does not lower it.
C25_MinimumOfKnownRemaining ==
    frame.fn = "analyzeLands" =>
        LET lands == frame.args.lands
            now == frame.args.nowSec
            snapshot == buildFarmSnapshot(frame.result)
            plots == snapshot.landSnapshots
            known == KnownGrowing(snapshot)
        IN /\ Len(plots) = Len(lands)
           /\ \A i \in 1..Len(plots) :
                 plots[i].type = "growing" =>
                    LET plant == Val(lands[i].plant)
                        info == getRemainingToMatureInfo(plant.phases, now,
                                                         getPlantGrowTime(plant.id))
                    IN /\ plots[i].id = lands[i].id
                       /\ lands[i].id \in SeqToSet(frame.result.growing)
                       /\ plots[i].remainingKnown = info.known
                       /\ plots[i].remainingSec = info.remainingSec
           /\ IsNull(snapshot.minRemainingSec) <=> known = {}
           /\ known # {} =>
                 /\ \E i \in known : plots[i].remainingSec = Val(snapshot.minRemainingSec)
                 /\ \A i \in known : plots[i].remainingSec >= Val(snapshot.minRemainingSec)

\* a plot of unknown remaining time, recorded with 0, after a plot with a known
\* positive remaining time: the minimum is the known time
C25_Witness ==
    /\ frame.fn = "analyzeLands"
    /\ Len(frame.result.landSnapshots) = 2
    /\ frame.result.growing = <<1, 2>>
    /\ frame.result.landSnapshots[1].remainingKnown
    /\ frame.result.landSnapshots[1].remainingSec > 0
    /\ ~frame.result.landSnapshots[2].remainingKnown
    /\ frame.result.landSnapshots[2].remainingSec = 0
    /\ buildFarmSnapshot(frame.result).minRemainingSec
          = Some(frame.result.landSnapshots[1].remainingSec)

\* two plots of known remaining time, the second with the shorter one
C25_SecondLowerWitness ==
    /\ frame.fn = "analyzeLands"
    /\ KnownGrowing(buildFarmSnapshot(frame.result)) = {1, 2}
    /\ frame.result.landSnapshots[2].remainingSec < frame.result.landSnapshots[1].remainingSec
    /\ frame.result.minRemainingSec = Some(frame.result.landSnapshots[2].remainingSec)

\* the configured seed a yield row was computed from
SeedOfRow(row) ==
    SeedShopRows[CHOOSE i \in 1..Len(SeedShopRows) : SeedShopRows[i].seedId = row.seedId]

\* n * e / cycle * 3600 for a cycle time given as a fraction
RateFor(n, e, cycle) == Frac(n * e * SecPerHour * cycle.d, cycle.n)

\* a rate of the table equals the rate the formula gives (a formula that yields
\* no positive rate equals none of the table's rates)
SameRate(rate, formula) ==
    /\ formula.n > 0 /\ formula.d > 0
    /\ FracEQ(rate, formula)

\* g + n/9, g - max(20% of g, 30) + n/6 and the same with the reduced grow time
\* kept at one second or more
UnfertilizedCycle(g, n) == Frac(9 * g + n, 9)
FertilizedCycleAsStated(g, n) == Frac(6 * (5 * g - Max(g, 5 * 30)) + 5 * n, 30)
FertilizedCycleFloored(g, n) == Frac(6 * Max(5, 5 * g - Max(g, 5 * 30)) + 5 * n, 30)

\* the yield rows in the cache are those of every configured seed with an id and
\* a positive grow time, computed with the given fertilized cycle time
YieldRowsFollow(FertCycle(_, _)) ==
    LET n == seedYieldCache.lands
        rows == seedYieldCache.rows
    IN Len(rows) > 0 =>
          /\ n >= 1
          /\ {rows[i].seedId : i \in 1..Len(rows)}
                = {SeedShopRows[i].seedId :
                      i \in {j \in 1..Len(SeedShopRows) : SeedShopRows[j].growTimeSec > 0}}
          /\ \A i \in 1..Len(rows) :
                LET g == SeedOfRow(rows[i]).growTimeSec
                    e == SeedOfRow(rows[i]).exp
                IN /\ SameRate(rows[i].farmExpPerHourNoFert,
                               RateFor(n, e, UnfertilizedCycle(g, n)))
                   /\ SameRate(rows[i].farmExpPerHourNormalFert,
                               RateFor(n, e, FertCycle(g, n)))

\* C26 as stated: for every configured seed with positive grow time g and harvest
\* experience e and every plot count n >= 1 the unfertilized cycle time is
\* g + n/9, the fertilized cycle time is (g - max(20% of g, 30)) + n/6, and each
\* experience-per-hour figure is n * e / cycle time * 3600.
C26_CycleTimesAsStated == YieldRowsFollow(FertilizedCycleAsStated)

\* C26: for every configured seed with positive grow time g and harvest
\* experience e and every plot count n >= 1 the unfertilized cycle time is
\* g + n/9, the fertilized cycle time is max(1, g - max(20% of g, 30)) + n/6, and
\* each experience-per-hour figure is n * e / cycle time * 3600.
C26_CycleTimesFloored == YieldRowsFollow(FertilizedCycleFloored)

\* the rows for two plots hold a seed that grows in less than 30 seconds; its
\* fertilized rate is that of a cycle of 1 + 2/6 seconds
C26_Witness ==
    /\ seedYieldCache.lands = 2
    /\ \E i \in 1..Len(seedYieldCache.rows) :
          /\ SeedOfRow(seedYieldCache.rows[i]).growTimeSec < 30
          /\ FracEQ(seedYieldCache.rows[i].farmExpPerHourNormalFert,
                    RateFor(2, SeedOfRow(seedYieldCache.rows[i]).exp, Frac(1 * 6 + 2, 6)))

\* what the optimizer computes for a level and a plot count from the seed table
OptimizerFor(lv, lands) == getBestSeedsForLevel(EmptySeedYieldCache, lv, lands, Null)

OptimizerTable == [lv \in Levels |-> [lands \in 1..MaxLands |-> OptimizerFor(lv, lands)]]

\* the rows of the yield table for every plot count
YieldTables == [lands \in 1..NPlots |-> YieldTable(lands)]

\* the steps that call ensureBestSeedCache: the plot fetch of a refresh, the bag
\* stage of the replant pipeline and a level-change notification
CacheOps == {"AllLands", "Bag", "levelChanged"}

\* C27: in every state that a refresh or a level-change notification leaves, for
\* every level and plot count, a cache returned by ensureBestSeedCache has that
\* level and plot count as its key, and its best candidates and summary line are
\* those the optimizer computes for that pair; and the seed yield rows kept, before
\* and after the call, are the rows of the plot count they are kept under.
C27_CacheMatchesItsKey ==
    ev.op \in CacheOps =>
    /\ \A lv \in Levels, lands \in 1..MaxLands :
          \A e \in {ensureBestSeedCache(bestSeedCache, seedYieldCache, lv, lands)} :
             /\ e.hit =>
                   /\ e.cache.level = lv
                   /\ e.cache.lands = lands
                   /\ e.cache.best = OptimizerTable[lv][lands]
                   /\ ~IsNull(e.cache.best)
                   /\ e.cache.line = buildBestSeedLine(Val(e.cache.best).bestNoFert,
                                                       Val(e.cache.best).bestNormalFert)
             /\ Len(e.yield.rows) > 0 => e.yield.rows = YieldTables[e.yield.lands]
    /\ Len(seedYieldCache.rows) > 0 => seedYieldCache.rows = YieldTables[seedYieldCache.lands]

\* a notification of level 1 has replaced what a refresh had cached for level 5
\* and the same two plots: the cache holds the best seed of level 1
C27_Witness ==
    /\ ev.op = "levelChanged"
    /\ ev.outcome = "refreshed"
    /\ level = 5
    /\ bestSeedCache.level = 1
    /\ bestSeedCache.lands = 2
    /\ bestSeedCache.best = OptimizerTable[1][2]
    /\ bestSeedCache.best # OptimizerTable[5][2]

\* C28: whatever startFarmCheckLoop and stopFarmCheckLoop calls have been made, at
\* most one farmCheckLoop instance is alive (about to start, awaiting its cycle or
\* sleeping between ticks) and the landsChanged and levelChanged listeners are
\* registered at most once.
C28_AtMostOneLoopInstance ==
    /\ LiveLoops <= 1
    /\ listeners <= 1

(***************************************************************************)
(* The polling loop under the server clock, without push notifications, on *)
(* farms whose plants keep growing                                         *)
(***************************************************************************)
\* matures one second after the last instant of the model
LatePlant == Plant(1, <<Phase(PhaseSEED, StartSec - 1),
                        Phase(PhaseMATURE, StartSec + MaxElapsedSec + 1)>>, 0, 0, 0)

GrowFarms ==
    { <<>>,
      <<Land(1, TRUE, Some(LatePlant)), Land(2, FALSE, NoPlant)>>,
      <<Land(1, TRUE, Some(UnknownPlant)), Land(2, FALSE, NoPlant)>>,
      <<Land(1, FALSE, NoPlant), Land(2, TRUE, Some(ThirstyPlant))>> }

NextGrow ==
    \/ startFarmCheckLoop
    \/ stopFarmCheckLoop
    \/ StartTimerFire
    \/ LoopWake
    \/ Login(5, 0)
    \/ RemoteCare("loop", GrowFarms)
    \/ AdvanceSec

SpecGrow == Init /\ [][NextGrow]_vars

\* timers fire, awaited remote calls settle and the server clock advances
FairSpecGrow ==
    /\ SpecGrow
    /\ WF_vars(StartTimerFire)
    /\ WF_vars(LoopWake)
    /\ WF_vars(RemoteCare("loop", GrowFarms))
    /\ WF_vars(AdvanceSec)

\* the cached snapshot holds a growing plot
SnapshotHasGrowing ==
    /\ ~IsNull(lastFarmSnapshot)
    /\ \E i \in 1..Len(Val(lastFarmSnapshot).landSnapshots) :
          Val(lastFarmSnapshot).landSnapshots[i].type = "growing"

\* a cycle has just begun its plot fetch, or the fetch has just settled
PlotFetchBegun ==
    \/ ev.op = "checkFarm" /\ ev.outcome = "fetch"
    \/ ev.op = "AllLands"

\* C29: with the loop running and a growing plot in the cached snapshot, a plot
\* fetch eventually begins or settles (or the loop is stopped), with no push
\* notification ever delivered.
C29_GrowingPlotLeadsToFetch ==
    (farmLoopRunning /\ SnapshotHasGrowing) ~> (PlotFetchBegun \/ ~farmLoopRunning)

\* the same for a snapshot whose minimum remaining time is known
C29_KnownRemainingLeadsToFetch ==
    (farmLoopRunning /\ SnapshotHasGrowing /\ ~IsNull(Val(lastFarmSnapshot).minRemainingSec))
        ~> (PlotFetchBegun \/ ~farmLoopRunning)

\* C30: the forced flag, once set, is cleared only by a plot fetch that succeeds
\* with at least one plot; a fetch that fails or returns no plots leaves it set;
\* and a checkFarm call that passes the guard (no cycle in flight, user logged in)
\* with the flag set begins the plot fetch instead of publishing the projection.
C30_ForcedUntilFetchSucceeds ==
    /\ [][(forceFarmCheck /\ ~forceFarmCheck')
             => (ev'.op = "AllLands" /\ ev'.outcome = "analyzed")]_vars
    /\ [][(forceFarmCheck /\ ev'.op = "AllLands" /\ ev'.outcome \in {"failed", "noLands"})
             => forceFarmCheck']_vars
    /\ [][(forceFarmCheck /\ ev'.op = "checkFarm" /\ gid /\ ~isCheckingFarm)
             => (ev'.outcome = "fetch" /\ forceFarmCheck')]_vars

\* a cycle whose only reason to fetch was the forced flag has had its fetch fail,
\* and the flag is still set
C30_Witness ==
    /\ ev.op = "AllLands"
    /\ ev.outcome = "failed"
    /\ forceFarmCheck
    /\ ~shouldCheckFarmNowOf(isFirstFarmCheck, FALSE, lastFarmSnapshot, serverSec)

\* the calls of the replant pipeline that address plots
ReplantOps == {"RemovePlant", "Plant", "Fertilize"}

\* the category the analysis gave plot id
TypeOf(status, id) ==
    {status.landSnapshots[i].type :
        i \in {j \in 1..Len(status.landSnapshots) : status.landSnapshots[j].id = id}}

\* the list a care or harvest call must address
CategoryList(status, op) ==
    IF op = "WeedOut" THEN status.needWeed
    ELSE IF op = "Insecticide" THEN status.needBug
    ELSE IF op = "WaterLand" THEN status.needWater
    ELSE status.harvestable

\* C31: every clear, plant and fertilize call of a cycle addresses only plots the
\* cycle's analysis put in its empty or dead list, or in its harvestable list when
\* the harvest call of the cycle has succeeded; none of them addresses a plot the
\* analysis recorded as locked or growing; and every weed, de-bug, water and
\* harvest call addresses exactly the list of its own category.  The harvested
\* ids are taken only when the harvest call settles with success.
C31_CallsAddressOwnCategories ==
    [][\A o \in Owners :
          ev'.by = o =>
             /\ \A i \in 1..Len(ev'.calls) :
                   LET call == ev'.calls[i]
                       status == Val(loc'[o].status)
                       harvestedOk == \/ ev'.op = "Harvest" /\ ev'.outcome = "ok"
                                      \/ ev'.op # "Harvest" /\ loc[o].harvested # <<>>
                   IN /\ call.op \in ReplantOps =>
                         \A id \in SeqToSet(call.ids) :
                            /\ \/ id \in SeqToSet(status.empty)
                               \/ id \in SeqToSet(status.dead)
                               \/ harvestedOk /\ id \in SeqToSet(status.harvestable)
                            /\ TypeOf(status, id) \cap {"lock", "growing"} = {}
                      /\ call.op \in BatchOps \cup {"Harvest"} =>
                            call.ids = CategoryList(status, call.op)
             /\ (loc'[o].harvested # loc[o].harvested /\ loc'[o].harvested # <<>>)
                   => /\ ev'.op = "Harvest"
                      /\ ev'.outcome = "ok"
                      /\ loc'[o].harvested = Val(loc[o].status).harvestable]_vars

\* a cycle on a farm with a growing plot, a dead plot and a locked plot holding a
\* dead plant has cleared and planted the dead plot and fertilizes it
C31_Witness ==
    /\ ev.by = "loop"
    /\ OpsOf(ev.calls) = {"Fertilize"}
    /\ ev.calls[1].ids = <<2>>
    /\ TypeOf(Val(loc["loop"].status), 1) = {"growing"}
    /\ TypeOf(Val(loc["loop"].status), 3) = {"lock"}
    /\ Val(loc["loop"].status).dead = <<2>>

\* the harvest call has failed on a farm with an empty plot: the pipeline goes on
\* for the empty plot alone
C31_HarvestFailedWitness ==
    /\ ev.by = "loop"
    /\ ev.op = "Harvest"
    /\ ev.outcome = "failed"
    /\ Val(loc["loop"].status).harvestable # <<>>
    /\ Val(loc["loop"].status).empty # <<>>
    /\ OpsOf(ev.calls) = {"Bag"}

\* the positions of a cycle inside the replant pipeline
ReplantPcs == {"clear", "bag", "shop", "buy", "plant", "fert"}

\* the cycle of these locals is in its replant pipeline after a failed harvest
HarvestFailedIn(l) ==
    /\ l.pc \in ReplantPcs
    /\ Val(l.status).harvestable # <<>>
    /\ l.harvested = <<>>

\* C32: when the harvest call of a cycle fails, the replant pipeline is entered
\* with the dead plots to clear and the empty plots to plant and nothing else,
\* and from then on no clear, plant or fertilize call of the cycle addresses a
\* harvestable plot.
C32_FailedHarvestKeepsPlotsOut ==
    [][\A o \in Owners :
          ev'.by = o =>
             /\ (ev'.op = "Harvest" /\ ev'.outcome = "failed" /\ loc'[o].pc # "idle")
                   => /\ loc'[o].harvested = <<>>
                      /\ loc'[o].deadIds = Val(loc[o].status).dead
                      /\ loc'[o].landsToPlant = Val(loc[o].status).empty
             /\ ((ev'.op = "Harvest" /\ ev'.outcome = "failed") \/ HarvestFailedIn(loc[o]))
                   => \A i \in 1..Len(ev'.calls) :
                         ev'.calls[i].op \in ReplantOps =>
                            /\ SeqToSet(ev'.calls[i].ids)
                                  \cap SeqToSet(Val(loc[o].status).harvestable) = {}
                            /\ SeqToSet(ev'.calls[i].ids)
                                  \subseteq SeqToSet(Val(loc[o].status).dead)
                                            \cup SeqToSet(Val(loc[o].status).empty)]_vars

\* after a failed harvest the cycle has planted the empty plot and fertilizes it,
\* the harvestable plot left alone
C32_Witness ==
    /\ ev.by = "loop"
    /\ HarvestFailedIn(loc["loop"])
    /\ loc["loop"].pc = "fert"
    /\ OpsOf(ev.calls) = {"Fertilize"}
    /\ Val(loc["loop"].status).harvestable = <<1>>
    /\ ev.calls[1].ids = <<2>>

\* the plot ids of a log of attempts, in order
AttemptIds(attempts) == [i \in 1..Len(attempts) |-> attempts[i].id]

\* C33: when the clear call settles, failed or not, the cleared ids (dead, then
\* harvested) are appended to the empty ones as the plots to plant and the
\* pipeline goes on to the fertilizer-stock query; seeds are then bought for as
\* many of these plots, in order, as the gold pays for, and a plant call is
\* attempted on each plot bought for, in order.
C33_FailedClearStillPlants ==
    [][\A o \in Owners :
          ev'.by = o =>
             /\ ev'.op = "RemovePlant"
                   => /\ loc'[o].pc = "bag"
                      /\ ev'.calls = <<Call("Bag", <<>>)>>
                      /\ loc'[o].landsToPlant
                            = Val(loc[o].status).empty \o Val(loc[o].status).dead
                                                       \o loc[o].harvested
             /\ "BuyGoods" \in OpsOf(ev'.calls)
                   => /\ ev'.calls[1].num = Len(loc'[o].landsToPlant)
                      /\ ev'.calls[1].num > 0
                      /\ loc'[o].landsToPlant
                            = SliceTo(loc[o].landsToPlant, ev'.calls[1].num)
             /\ (ev'.op = "BuyGoods" /\ ev'.outcome = "ok")
                   => /\ loc'[o].landsToPlant = loc[o].landsToPlant
                      /\ loc'[o].seq.landIds = loc[o].landsToPlant
             /\ "Plant" \in OpsOf(ev'.calls)
                   => ev'.calls = << Call("Plant", <<loc'[o].landsToPlant[
                                                        Len(loc'[o].seq.attempts) + 1]>>) >>
             /\ (loc[o].pc = "plant" /\ loc'[o].pc = "fert")
                   => AttemptIds(loc'[o].plantLog) = loc[o].landsToPlant]_vars

\* the clear call of a cycle with a dead plot has failed: the dead plot is among
\* the plots to plant and the fertilizer stock is queried
C33_Witness ==
    /\ ev.by = "loop"
    /\ ev.op = "RemovePlant"
    /\ ev.outcome = "failed"
    /\ loc["loop"].pc = "bag"
    /\ Val(loc["loop"].status).dead # <<>>
    /\ SeqToSet(Val(loc["loop"].status).dead) \subseteq SeqToSet(loc["loop"].landsToPlant)

(***************************************************************************)
(* buildFarmLinesFromSnapshot called directly on a cached snapshot while   *)
(* server time advances                                                    *)
(***************************************************************************)
\* matures one second after the start of the model
SoonPlant == Plant(1, <<Phase(PhaseSEED, StartSec - 1),
                        Phase(PhaseMATURE, StartSec + 1)>>, 0, 0, 0)

ProjectPlots(id) == PlotCases(id) \cup {Land(id, TRUE, Some(SoonPlant))}

RECURSIVE ProjectFarmsUpTo(_)
ProjectFarmsUpTo(n) ==
    IF n = 0 THEN {<<>>}
    ELSE LET shorter == ProjectFarmsUpTo(n - 1)
         IN shorter \cup {Append(q, x) : q \in {r \in shorter : Len(r) = n - 1},
                                         x \in ProjectPlots(n)}

\* after a refresh of some farm at some time
InitProject ==
    /\ isCheckingFarm = FALSE
    /\ farmCheckTimer = "none"
    /\ farmLoopRunning = FALSE
    /\ forceFarmCheck = FALSE
    /\ serverSec \in StartSec..(StartSec + MaxElapsedSec)
    /\ isFirstFarmCheck = FALSE
    /\ \E farm \in ProjectFarmsUpTo(MaxLands) :
          LET status == analyzeLands(farm, serverSec)
          IN /\ lastFarmSnapshot = Some(buildFarmSnapshot(status))
             /\ lastUnlockedCount = status.unlockedCount
    /\ lastPushTime = 0
    /\ listeners = 0
    /\ pushTimers = 0
    /\ loopSleeping = 0
    /\ loc = [o \in Owners |-> IdleLoc]
    /\ gid = TRUE
    /\ level = 1
    /\ gold = 0
    /\ nowMs = StartNowMs
    /\ statusBar = [farmLines |-> <<>>, bestSeedLine |-> <<>>]
    /\ ev = Event("init", "none", "none", <<>>)
    /\ bestSeedCache = EmptyBestSeedCache
    /\ seedYieldCache = EmptySeedYieldCache
    /\ pushSeen = [recv |-> 0, sched |-> 0]
    /\ frame = NoFrame

\* one call of buildFarmLinesFromSnapshot(lastFarmSnapshot): it reads the
\* snapshot and the server clock and writes nothing
CallBuildFarmLines ==
    /\ frame.fn = "buildFarmLinesFromSnapshot" => frame.args.nowSec < serverSec
    /\ frame' = CallFrame("buildFarmLinesFromSnapshot",
                          [snapshot |-> lastFarmSnapshot, nowSec |-> serverSec],
                          buildFarmLinesFromSnapshot(lastFarmSnapshot, serverSec))
    /\ ev' = Event("buildFarmLinesFromSnapshot", "direct", "returned", <<>>)
    /\ UNCHANGED <<ctlVars, schedVars, userVars, clockVars, cacheVars, loc, statusBar,
                   pushSeen>>

NextProject ==
    \/ CallBuildFarmLines
    \/ AdvanceSec

SpecProject == InitProject /\ [][NextProject]_vars

RECURSIVE Flatten(_)
\* the entries of the lines, in order
Flatten(lines) == IF Len(lines) = 0 THEN <<>> ELSE Head(lines) \o Flatten(Tail(lines))

\* the entries a projection shows, none for a null projection
Shown(projection) == IF IsNull(projection) THEN <<>> ELSE Flatten(Val(projection))

Projected == frame.fn = "buildFarmLinesFromSnapshot"

\* the seconds of a displayed time below one minute
ShownSeconds(text) == text[1][2]

KnownGrowingItem(item) == item.type = "growing" /\ item.remainingKnown

\* C34: a projection shows one entry per cached plot; for a growing plot with
\* known remaining time it shows max(0, cached remaining - elapsed server time),
\* never a negative time; every other plot is shown as at the time of the
\* snapshot; a later projection of the same snapshot never shows a greater
\* remaining time; and the call leaves the cached snapshot as it was.
C34_ProjectionExtrapolates ==
    /\ [](Projected /\ ~IsNull(frame.args.snapshot) =>
            LET snap == Val(frame.args.snapshot)
                items == snap.landSnapshots
                elapsed == Max(0, frame.args.nowSec - snap.serverTimeSec)
                shown == Shown(frame.result)
                atSnapshot == Shown(buildFarmLinesFromSnapshot(frame.args.snapshot,
                                                               snap.serverTimeSec))
            IN /\ Len(shown) = Len(items)
               /\ IsNull(frame.result) <=> Len(items) = 0
               /\ \A i \in 1..Len(items) :
                     /\ shown[i].id = items[i].id
                     /\ IF KnownGrowingItem(items[i])
                        THEN /\ shown[i].text[1]
                                   = formatGrowTime(Max(0, items[i].remainingSec - elapsed))
                             /\ ShownSeconds(shown[i].text) >= 0
                             /\ shown[i].text[2] = atSnapshot[i].text[2]
                        ELSE shown[i] = atSnapshot[i])
    /\ [][(Projected /\ ev'.op = "buildFarmLinesFromSnapshot") =>
             /\ frame'.args.snapshot = frame.args.snapshot
             /\ frame'.args.nowSec > frame.args.nowSec
             /\ \A i \in 1..Len(Shown(frame.result)) :
                   KnownGrowingItem(Val(frame.args.snapshot).landSnapshots[i])
                      => ShownSeconds(Shown(frame'.result)[i].text)
                            <= ShownSeconds(Shown(frame.result)[i].text)]_vars
    /\ [][ev'.op = "buildFarmLinesFromSnapshot"
             => /\ lastFarmSnapshot' = lastFarmSnapshot
                /\ frame'.args.snapshot = lastFarmSnapshot]_vars

\* two seconds after the snapshot a plot that had one second left is shown with
\* no time left, next to a plot whose remaining time is unknown
C34_Witness ==
    /\ Projected
    /\ Len(Val(frame.args.snapshot).landSnapshots) = 2
    /\ KnownGrowingItem(Val(frame.args.snapshot).landSnapshots[1])
    /\ Val(frame.args.snapshot).landSnapshots[1].remainingSec = 1
    /\ Val(frame.args.snapshot).landSnapshots[2].type = "growing"
    /\ ~Val(frame.args.snapshot).landSnapshots[2].remainingKnown
    /\ frame.args.nowSec - Val(frame.args.snapshot).serverTimeSec = 2
    /\ ShownSeconds(Shown(frame.result)[1].text) = 0

\* a later projection shows less time left than the one before
C34_DecreaseWitness ==
    /\ Projected
    /\ Len(Val(frame.args.snapshot).landSnapshots) > 0
    /\ KnownGrowingItem(Val(frame.args.snapshot).landSnapshots[1])
    /\ Val(frame.args.snapshot).landSnapshots[1].remainingSec = 3
    /\ frame.args.nowSec - Val(frame.args.snapshot).serverTimeSec = 1
    /\ ShownSeconds(Shown(frame.result)[1].text) = 2

(***************************************************************************)
(* QR login (src/unnamed/part_000): getFarmCodeByQr as a frame cut at its  *)
(* awaits: pc "login" (requestLoginCode in flight), "query" (queryStatus   *)
(* in flight), "sleep" (between polls), "auth" (getAuthCode in flight),    *)
(* "ret" (returned result), "threw" (rejected).  elapsed is Date.now()     *)
(* minus start, in milliseconds.                                           *)
(***************************************************************************)
DEFAULT_POLL_INTERVAL_MS == 2000
DEFAULT_TIMEOUT_MS == 120000

\* the longest a status request takes, in milliseconds
MaxQueryMs == 1000

\* options.pollInterval and options.timeoutMs; 0 stands for an absent option
QrOptions == {[pollInterval |-> p, timeoutMs |-> t] : p \in {0, 1000}, t \in {0, 3000}}

\* replies to syncScanSateGetTicket: the request fails, or answers with an
\* HTTP status, a result code and, when it carries data, the scan state
HttpReply(failed, status, code, data) ==
    [failed |-> failed, status |-> status, code |-> code, data |-> data]
ScanData(ok, ticket, uin) == [ok |-> ok, ticket |-> ticket, uin |-> uin]

QueryReplies ==
    { HttpReply(TRUE, 0, 0, Null),
      HttpReply(FALSE, 204, 0, Null),
      HttpReply(FALSE, 200, 0, Null),
      HttpReply(FALSE, 200, 0, Some(ScanData(0, "", ""))),
      HttpReply(FALSE, 200, 0, Some(ScanData(1, "ticket", "uin"))),
      HttpReply(FALSE, 200, 0, Some(ScanData(1, "ticket", ""))),
      HttpReply(FALSE, 200, -10003, Null),
      HttpReply(FALSE, 200, 7, Null) }

QrStatus(status, ticket, uin) == [status |-> status, ticket |-> ticket, uin |-> uin]
NoStatus == QrStatus("none", "", "")
Threw == QrStatus("threw", "", "")

\* queryStatus (lines 39-55); reading data.ok of a reply without data throws
queryStatus(reply) ==
    IF reply.failed THEN Threw
    ELSE IF reply.status # 200 THEN QrStatus("Error", "", "")
    ELSE IF reply.code = 0
         THEN IF IsNull(reply.data) THEN Threw
              ELSE IF Val(reply.data).ok # 1 THEN QrStatus("Wait", "", "")
              ELSE QrStatus("OK", Val(reply.data).ticket, Val(reply.data).uin)
    ELSE IF reply.code = -10003 THEN QrStatus("Used", "", "")
    ELSE QrStatus("Error", "", "")

\* replies to the login request: failed, or an HTTP status and a code
AuthReplies == { [failed |-> TRUE, status |-> 0, code |-> ""],
                 [failed |-> FALSE, status |-> 500, code |-> "code"],
                 [failed |-> FALSE, status |-> 200, code |-> ""],
                 [failed |-> FALSE, status |-> 200, code |-> "code"] }

\* getAuthCode (lines 57-68)
getAuthCode(reply) == IF reply.status # 200 THEN "" ELSE reply.code

Credentials(code, uin, ticket) == [code |-> code, uin |-> uin, ticket |-> ticket]

QrFrame(pc, options, elapsed, polls, last, result) ==
    [fn |-> "getFarmCodeByQr", pc |-> pc, args |-> options,
     pollInterval |-> IF options.pollInterval # 0 THEN options.pollInterval
                      ELSE DEFAULT_POLL_INTERVAL_MS,
     timeoutMs |-> IF options.timeoutMs # 0 THEN options.timeoutMs ELSE DEFAULT_TIMEOUT_MS,
     elapsed |-> elapsed, polls |-> polls, last |-> last, result |-> result]

\* line 95: the head of the while loop; past the timeout the function returns
\* null (lines 120-122)
QrLoopHead(f) ==
    IF f.elapsed < f.timeoutMs THEN [f EXCEPT !.pc = "query", !.polls = @ + 1]
    ELSE [f EXCEPT !.pc = "ret", !.result = Null]

\* a loop that polls again after an Error status
QrAfterStatusRetrying(f, status) ==
    LET g == [f EXCEPT !.last = status]
    IN IF status.status = "threw" THEN [g EXCEPT !.pc = "threw"]
       ELSE IF status.status \in {"Wait", "Error"} THEN [g EXCEPT !.pc = "sleep"]
       ELSE IF status.status = "Used" THEN [g EXCEPT !.pc = "ret", !.result = Null]
       ELSE [g EXCEPT !.pc = "auth"]

\* lines 96-117: the body of the loop after queryStatus has settled
QrAfterStatus(f, status) ==
    LET g == [f EXCEPT !.last = status]
    IN IF status.status = "threw" THEN [g EXCEPT !.pc = "threw"]
       ELSE IF status.status = "Wait" THEN [g EXCEPT !.pc = "sleep"]
       ELSE IF status.status = "Used" THEN [g EXCEPT !.pc = "ret", !.result = Null]
       ELSE IF status.status = "OK" THEN [g EXCEPT !.pc = "auth"]
       ELSE [g EXCEPT !.pc = "ret", !.result = Null]

QrUnchanged ==
    UNCHANGED <<ctlVars, schedVars, userVars, clockVars, cacheVars, loc, statusBar, pushSeen>>

\* getFarmCodeByQr(options) up to its first await (lines 84-89)
CallGetFarmCodeByQr(options) ==
    /\ frame = NoFrame
    /\ frame' = QrFrame("login", options, 0, 0, NoStatus, Null)
    /\ ev' = Event("getFarmCodeByQr", "qr", "called", <<>>)
    /\ QrUnchanged

\* requestLoginCode settles: it throws unless the reply carries a code (lines
\* 29-32), else the clock is read and the loop entered (lines 94-95)
LoginCodeReturn(ok) ==
    /\ frame.fn = "getFarmCodeByQr"
    /\ frame.pc = "login"
    /\ frame' = IF ok THEN QrLoopHead(frame) ELSE [frame EXCEPT !.pc = "threw"]
    /\ ev' = Event("requestLoginCode", "qr", IF ok THEN "ok" ELSE "threw", <<>>)
    /\ QrUnchanged

\* queryStatus settles after ms milliseconds
QueryReturn(reply, ms) ==
    /\ frame.fn = "getFarmCodeByQr"
    /\ frame.pc = "query"
    /\ frame' = QrAfterStatus([frame EXCEPT !.elapsed = @ + ms], queryStatus(reply))
    /\ ev' = Event("queryStatus", "qr", queryStatus(reply).status, <<>>)
    /\ QrUnchanged

\* sleep(pollInterval) is over (lines 98-99)
QrSleepDone ==
    /\ frame.fn = "getFarmCodeByQr"
    /\ frame.pc = "sleep"
    /\ frame' = QrLoopHead([frame EXCEPT !.elapsed = @ + frame.pollInterval])
    /\ ev' = Event("sleep", "qr", "woke", <<>>)
    /\ QrUnchanged

\* getAuthCode settles (lines 108-113)
AuthReturn(reply) ==
    /\ frame.fn = "getFarmCodeByQr"
    /\ frame.pc = "auth"
    /\ frame' = IF reply.failed THEN [frame EXCEPT !.pc = "threw"]
                ELSE IF getAuthCode(reply) = ""
                     THEN [frame EXCEPT !.pc = "ret", !.result = Null]
                     ELSE [frame EXCEPT !.pc = "ret",
                                        !.result = Some(Credentials(getAuthCode(reply),
                                                                    frame.last.uin,
                                                                    frame.last.ticket))]
    /\ ev' = Event("getAuthCode", "qr",
                   IF reply.failed THEN "threw" ELSE getAuthCode(reply), <<>>)
    /\ QrUnchanged

NextQr ==
    \/ \E options \in QrOptions : CallGetFarmCodeByQr(options)
    \/ \E ok \in BOOLEAN : LoginCodeReturn(ok)
    \/ \E reply \in QueryReplies, ms \in {0, MaxQueryMs} : QueryReturn(reply, ms)
    \/ QrSleepDone
    \/ \E reply \in AuthReplies : AuthReturn(reply)

SpecQr == Init /\ [][NextQr]_vars

\* every request settles and every sleep ends
FairSpecQr ==
    /\ SpecQr
    /\ WF_vars(\E ok \in BOOLEAN : LoginCodeReturn(ok))
    /\ WF_vars(\E reply \in QueryReplies, ms \in {0, MaxQueryMs} : QueryReturn(reply, ms))
    /\ WF_vars(QrSleepDone)
    /\ WF_vars(\E reply \in AuthReplies : AuthReturn(reply))

QrCalled == frame.fn = "getFarmCodeByQr"
QrReturned == QrCalled /\ frame.pc = "ret"
QrThrew == QrCalled /\ frame.pc = "threw"

\* a status request is issued only as the first poll or after a sleep that
\* followed a Wait status, and only before the timeout; any other status ends
\* the polling
QrPollsOnlyWhileWaiting ==
    [][(QrCalled /\ frame'.pc = "query")
          => /\ frame'.elapsed < frame'.timeoutMs
             /\ \/ frame.pc = "login"
                \/ frame.pc = "sleep" /\ frame.last.status = "Wait"
             /\ frame.pc = "sleep" <=> ev'.op = "sleep"]_vars

\* what a return carries: credentials after an OK status and a non-empty code,
\* null after Used, Error, an empty code, or the timeout after Wait replies only
QrReturnsAsStated ==
    [](QrReturned =>
          /\ ~IsNull(frame.result)
                => /\ frame.last.status = "OK"
                   /\ Val(frame.result).code # ""
                   /\ Val(frame.result).ticket = frame.last.ticket
                   /\ Val(frame.result).uin = frame.last.uin
          /\ IsNull(frame.result)
                => \/ frame.last.status \in {"Used", "Error", "OK"}
                   \/ /\ frame.last.status \in {"Wait", "none"}
                      /\ frame.elapsed >= frame.timeoutMs)

\* the claim as stated: polling only while waiting, a call always ends, and it
\* ends by returning credentials or null
C35_AlwaysReturnsCredentialsOrNull ==
    /\ QrPollsOnlyWhileWaiting
    /\ QrReturnsAsStated
    /\ QrCalled ~> QrReturned

\* C35: getFarmCodeByQr polls only while the last status is Wait and the timeout
\* has not elapsed; every call ends; it returns credentials only after an OK
\* status and a non-empty auth code, and null after Used, Error, an empty auth
\* code or the timeout; it ends without returning, by throwing, exactly when the
\* login-code request fails or a request throws.
C35_ReturnsOrThrows ==
    /\ QrPollsOnlyWhileWaiting
    /\ QrReturnsAsStated
    /\ QrCalled ~> (QrReturned \/ QrThrew)
    /\ [](QrThrew => \/ ev.op = "requestLoginCode" /\ ev.outcome = "threw"
                     \/ ev.op = "queryStatus" /\ ev.outcome = "threw"
                     \/ ev.op = "getAuthCode" /\ ev.outcome = "threw")
    /\ [][(QrCalled /\ ev'.outcome = "threw") => frame'.pc = "threw"]_vars

\* after Wait replies up to the timeout the call has returned null
C35_Witness ==
    /\ QrReturned
    /\ IsNull(frame.result)
    /\ frame.last.status = "Wait"
    /\ frame.polls > 1
    /\ frame.elapsed >= frame.timeoutMs

\* after a Wait and an OK status the call has returned credentials
C35_CredentialsWitness ==
    /\ QrReturned
    /\ ~IsNull(frame.result)
    /\ frame.polls > 1
    /\ Val(frame.result) = Credentials("code", "uin", "ticket")

====
